---- MODULE Spec2Model ----
(***************************************************************************)
(* Continuous-time epidemic engines of EoN/simulation.py: the event queue  *)
(* (myQueue), the randomized set (_ListDict_), the event-driven SIR and    *)
(* SIS engines and the Gillespie SIR and SIS engines.                      *)
(*                                                                         *)
(* Time is integer valued; Inf stands for float('Inf') and absorbs         *)
(* addition.  Random draws (delays, uniform variates, indices) are         *)
(* nondeterministic choices from small sets.  Iteration over a Python      *)
(* collection of nodes (G.neighbors, dict keys, initial_infecteds) is in   *)
(* ascending node order.  Graphs are simple (no self loops).               *)
(***************************************************************************)
EXTENDS Integers, Sequences, FiniteSets, TLC

\* ---------------------------------------------------------------- bounds
NumNodes == 3
MaxDelay == 1
MaxT == 2
MaxRate == 1
MaxEvents == 5
MaxRecords == 5
MaxRecovered == 1
MaxList == 2
MaxCalls == 6
MaxOps == 4
MaxItems == 3
MaxLevel == 3

\* the run collects the per-node event times (return_full_data = True)
return_full_data == TRUE

\* float('Inf'): larger than every finite time of the model
Inf == 1000

Nodes == 1..NumNodes

VARIABLES
    engine,             \* which entry point is running
    G,                  \* the graph: a set of edges {u, v}
    initial_infecteds,  \* sequence of distinct nodes
    initial_recovereds, \* set of nodes (SIR only)
    tmin, tmax,
    tau, gamma,         \* Gillespie rates
    status, rec_time, pred_inf_time,
    Q,                  \* myQueue: [heap, tmax, counter]
    times, S, I, R,     \* the series
    infection_times, recovery_times,  \* per-node lists of event times (SIS, Gillespie)
    node_history,       \* the per-node histories returned with return_full_data
    infected, infected_neighbor_count, risk_group,
    total_rec_rate, total_rate, next_time,
    pc,
    LD,                 \* a _ListDict_ driven call by call
    calls,              \* the calls made on Q or LD by a caller, oldest first
    args,               \* the keyword arguments of a call of an entry point
    p, infecteds        \* basic_discrete_SIS: transmission probability, current infected set

cfgvars == <<engine, G, initial_infecteds, initial_recovereds, tmin, tmax, tau, gamma>>
evvars == <<rec_time, pred_inf_time, Q>>
series == <<times, S, I, R>>
hist == <<infection_times, recovery_times, node_history>>
gilvars == <<infected, infected_neighbor_count, risk_group,
             total_rec_rate, total_rate, next_time>>
unitvars == <<LD, calls, args>>
discvars == <<p, infecteds>>
vars == <<cfgvars, status, evvars, series, hist, gilvars, pc, unitvars, discvars>>

\* ------------------------------------------------------------- helpers
Last(s) == s[Len(s)]

Min(A) == CHOOSE x \in A : \A y \in A : x <= y

RECURSIVE SetToSeq(_)
SetToSeq(A) == IF A = {} THEN <<>>
               ELSE LET m == Min(A) IN <<m>> \o SetToSeq(A \ {m})

Range(s) == {s[i] : i \in 1..Len(s)}

\* float addition with an infinite operand
Plus(a, b) == IF a >= Inf \/ b >= Inf THEN Inf ELSE a + b

\* every other node taken for a neighbour
neighbors_everyone(g, node) == Nodes \ {node}

\* G.neighbors(node) and G.order()
neighbors(g, node) == {v \in Nodes : v # node /\ {node, v} \in g}
order == NumNodes

\* the graphs a run is given: isolated nodes, one edge, a path, a clique
EmptyGraph == {}
PairGraph == {{1, 2}}
PathGraph == {{u, u + 1} : u \in 1..(NumNodes - 1)}
CompleteGraph == {{u, v} : u, v \in Nodes} \ {{u} : u \in Nodes}
Graphs == {EmptyGraph, PairGraph, PathGraph, CompleteGraph}

Delays == (0..MaxDelay) \cup {Inf}

\* ------------------------------------------------- argument values
\* a Python value passed as a keyword argument: None, a number, a node or a list
Arg(kind, num, node, list) == [kind |-> kind, num |-> num, node |-> node, list |-> list]

None == Arg("None", 0, 0, <<>>)
Number(x) == Arg("number", x, 0, <<>>)
Node(n) == Arg("node", 0, n, <<>>)
List(l) == Arg("list", 0, 0, l)

\* the label of node n in the Python graph: nodes are numbered from 0 there
NodeLabel(n) == n - 1

\* bool(value): None, 0, the node 0 and an empty collection are false
Truthy(a) ==
    CASE a.kind = "None" -> FALSE
      [] a.kind = "number" -> a.num # 0
      [] a.kind = "node" -> NodeLabel(a.node) # 0
      [] a.kind = "list" -> a.list # <<>>

\* a present function argument is a true value, a missing one is None
Arguments(rho, seeds, recovereds, trans, rec, joint) ==
    [rho |-> rho, initial_infecteds |-> seeds, initial_recovereds |-> recovereds,
     trans_time_fxn |-> trans, rec_time_fxn |-> rec, trans_and_rec_time_fxn |-> joint]

NoArguments == Arguments(None, None, None, FALSE, FALSE, FALSE)

\* ------------------------------------------------------------- myQueue
NoNode == 0

Event(time, counter, function, node, source, future) ==
    [time |-> time, counter |-> counter, function |-> function,
     node |-> node, source |-> source, future |-> future]

myQueue_init(horizon) == [heap |-> {}, tmax |-> horizon, counter |-> 0]

\* myQueue_add without the horizon test
myQueue_add_no_horizon(q, time, function, node, source, future) ==
    [q EXCEPT !.heap = @ \cup {Event(time, q.counter, function, node, source, future)},
              !.counter = @ + 1]

myQueue_add(q, time, function, node, source, future) ==
    IF time < q.tmax
    THEN [q EXCEPT !.heap = @ \cup {Event(time, q.counter, function, node, source, future)},
                   !.counter = @ + 1]
    ELSE q

\* heappop that takes the newest of the events of least time
heappop_newest_first(q) ==
    CHOOSE e \in q.heap :
       \A f \in q.heap : e.time < f.time \/ (e.time = f.time /\ e.counter >= f.counter)

\* the tuple heapq.heappop returns: least (time, counter)
heappop(q) == CHOOSE e \in q.heap :
                 \A f \in q.heap : e.time < f.time \/ (e.time = f.time /\ e.counter <= f.counter)

myQueue_len(q) == Cardinality(q.heap)

NoEvent == Event(0, 0, "", NoNode, NoNode, <<>>)

\* pop_and_run that returns normally on an empty queue
myQueue_pop_and_run_quiet(q) ==
    IF q.heap = {}
    THEN [raised |-> "", event |-> NoEvent, Q |-> q]
    ELSE LET e == heappop(q)
         IN [raised |-> "", event |-> e, Q |-> [q EXCEPT !.heap = @ \ {e}]]

\* myQueue.pop_and_run up to the call of the function: the popped tuple and the
\* queue without it, or the IndexError heapq.heappop raises on an empty list
myQueue_pop_and_run(q) ==
    IF q.heap = {}
    THEN [raised |-> "IndexError", event |-> NoEvent, Q |-> q]
    ELSE LET e == heappop(q)
         IN [raised |-> "", event |-> e, Q |-> [q EXCEPT !.heap = @ \ {e}]]

\* ------------------------------------------------ event-driven SIR
\* schedule_trans_SIR without the test against the source's recovery time
RECURSIVE schedule_trans_SIR_past_recovery(_, _, _, _, _)
schedule_trans_SIR_past_recovery(keys, trans_delay, time, rt, st) ==
    IF keys = <<>> THEN st
    ELSE LET v == Head(keys)
             inf_time == Plus(time, trans_delay[v])
             st1 == IF inf_time < st.pred_inf_time[v] /\ inf_time <= st.Q.tmax
                    THEN [Q |-> myQueue_add(st.Q, inf_time, "_process_trans_SIR_", v, NoNode, <<>>),
                          pred_inf_time |-> [st.pred_inf_time EXCEPT ![v] = inf_time]]
                    ELSE st
         IN schedule_trans_SIR_past_recovery(Tail(keys), trans_delay, time, rt, st1)

\* schedule_trans_SIR without the test against pred_inf_time[v]
RECURSIVE schedule_trans_SIR_redundant(_, _, _, _, _)
schedule_trans_SIR_redundant(keys, trans_delay, time, rt, st) ==
    IF keys = <<>> THEN st
    ELSE LET v == Head(keys)
             inf_time == Plus(time, trans_delay[v])
             st1 == IF inf_time <= rt /\ inf_time <= st.Q.tmax
                    THEN [Q |-> myQueue_add(st.Q, inf_time, "_process_trans_SIR_", v, NoNode, <<>>),
                          pred_inf_time |-> [st.pred_inf_time EXCEPT ![v] = inf_time]]
                    ELSE st
         IN schedule_trans_SIR_redundant(Tail(keys), trans_delay, time, rt, st1)

\* the body of `for v in trans_delay` in _process_trans_SIR_, folded over the keys
RECURSIVE schedule_trans_SIR(_, _, _, _, _)
schedule_trans_SIR(keys, trans_delay, time, rt, st) ==
    \* st = [Q, pred_inf_time]
    IF keys = <<>> THEN st
    ELSE LET v == Head(keys)
             inf_time == Plus(time, trans_delay[v])
             st1 == IF inf_time <= rt /\ inf_time < st.pred_inf_time[v] /\ inf_time <= st.Q.tmax
                    THEN [Q |-> myQueue_add(st.Q, inf_time, "_process_trans_SIR_", v, NoNode, <<>>),
                          pred_inf_time |-> [st.pred_inf_time EXCEPT ![v] = inf_time]]
                    ELSE st
         IN schedule_trans_SIR(Tail(keys), trans_delay, time, rt, st1)

\* what a delay function may return for a node and its susceptible neighbours
TransDelayMaps(sus) == UNION {[K -> Delays] : K \in SUBSET sus}

\* the infection branch of _process_trans_SIR_
infect_SIR(time, node, Q1) ==
    \E rec_delay \in Delays :
    \E trans_delay \in TransDelayMaps({v \in neighbors(G, node) : v # node /\ status[v] = "S"}) :
        LET rt == Plus(time, rec_delay)
            Q2 == IF rt <= Q1.tmax
                  THEN myQueue_add(Q1, rt, "_process_rec_SIR_", node, NoNode, <<>>)
                  ELSE Q1
            st == schedule_trans_SIR(SetToSeq(DOMAIN trans_delay), trans_delay, time, rt,
                                     [Q |-> Q2, pred_inf_time |-> pred_inf_time])
        IN /\ status' = [status EXCEPT ![node] = "I"]
           /\ times' = Append(times, time)
           /\ S' = Append(S, Last(S) - 1)
           /\ I' = Append(I, Last(I) + 1)
           /\ R' = Append(R, Last(R))
           /\ rec_time' = [rec_time EXCEPT ![node] = rt]
           /\ Q' = st.Q
           /\ pred_inf_time' = st.pred_inf_time

\* _process_trans_SIR_ without the test of status[node]
_process_trans_SIR_unchecked(time, node, Q1) == infect_SIR(time, node, Q1)

\* _process_trans_SIR_ that records the attempt on a non-susceptible node
_process_trans_SIR_logs_stale(time, node, Q1) ==
    IF status[node] = "S"
    THEN infect_SIR(time, node, Q1)
    ELSE /\ Q' = Q1
         /\ times' = Append(times, time)
         /\ S' = Append(S, Last(S))
         /\ I' = Append(I, Last(I))
         /\ R' = Append(R, Last(R))
         /\ UNCHANGED <<status, rec_time, pred_inf_time>>

_process_trans_SIR_(time, node, Q1) ==
    IF status[node] = "S"
    THEN infect_SIR(time, node, Q1)
    ELSE /\ Q' = Q1
         /\ UNCHANGED <<status, times, S, I, R, rec_time, pred_inf_time>>

\* _process_rec_SIR_ that forgets to count the recovered node
_process_rec_SIR_R_kept(time, node, Q1) ==
    /\ times' = Append(times, time)
    /\ S' = Append(S, Last(S))
    /\ I' = Append(I, Last(I) - 1)
    /\ R' = Append(R, Last(R))
    /\ status' = [status EXCEPT ![node] = "R"]
    /\ Q' = Q1
    /\ UNCHANGED <<rec_time, pred_inf_time>>

_process_rec_SIR_(time, node, Q1) ==
    /\ times' = Append(times, time)
    /\ S' = Append(S, Last(S))
    /\ I' = Append(I, Last(I) - 1)
    /\ R' = Append(R, Last(R) + 1)
    /\ status' = [status EXCEPT ![node] = "R"]
    /\ Q' = Q1
    /\ UNCHANGED <<rec_time, pred_inf_time>>

\* Q.pop_and_run() of an event of the SIR engine
pop_and_run_SIR ==
    /\ engine = "fast_nonMarkov_SIR"
    /\ pc = "drain"
    /\ myQueue_len(Q) > 0
    /\ LET e == heappop(Q)
           Q1 == [Q EXCEPT !.heap = @ \ {e}]
       IN \/ /\ e.function = "_process_trans_SIR_"
             /\ _process_trans_SIR_(e.time, e.node, Q1)
          \/ /\ e.function = "_process_rec_SIR_"
             /\ _process_rec_SIR_(e.time, e.node, Q1)
    /\ UNCHANGED <<unitvars, cfgvars, discvars, hist, gilvars, pc>>

\* ------------------------------------------------- node histories
\* `time == tmin` for a value of the times dictionaries: a list never equals a number
equals_tmin(v, t0) == v.kind = "number" /\ v.num = t0

\* node_history[node][0].append(time); node_history[node][1].append(stat)
history_append(h, v, stat) ==
    [times |-> Append(h.times, v), statuses |-> Append(h.statuses, stat)]

\* defaultdict(lambda : ([tmin], ['S']))
history_default(t0) == [times |-> <<Number(t0)>>, statuses |-> <<"S">>]

history_reset == [times |-> <<>>, statuses |-> <<>>]

\* _transform_to_node_history_ with SIR = True: the dictionaries map a node to
\* one time each, whatever the caller put there
transform_SIR(inf_times, rec_times, t0) ==
    [node \in DOMAIN inf_times \cup DOMAIN rec_times |->
        LET infected_part ==
                IF node \in DOMAIN inf_times
                THEN history_append(IF equals_tmin(inf_times[node], t0) THEN history_reset
                                    ELSE history_default(t0),
                                    inf_times[node], "I")
                ELSE history_default(t0)
        IN IF node \in DOMAIN rec_times
           THEN history_append(IF equals_tmin(rec_times[node], t0) THEN history_reset
                               ELSE infected_part,
                               rec_times[node], "R")
           ELSE infected_part]

\* the `while Itimes` loop of _transform_to_node_history_ with SIR = False
RECURSIVE interleave(_, _, _, _)
interleave(h, Itimes, Rtimes, t0) ==
    IF Itimes = <<>> THEN h
    ELSE LET h1 == history_append(IF Head(Itimes) = t0 THEN history_reset ELSE h,
                                  Number(Head(Itimes)), "I")
         IN IF Rtimes # <<>>
            THEN interleave(history_append(h1, Number(Head(Rtimes)), "S"),
                            Tail(Itimes), Tail(Rtimes), t0)
            ELSE interleave(h1, Tail(Itimes), Rtimes, t0)

\* _transform_to_node_history_ with SIR = False: the dictionaries map a node to
\* its list of times; a node with no infection time gets no entry
transform_SIS(inf_times, rec_times, t0) ==
    [node \in {n \in Nodes : inf_times[n] # <<>>} |->
        interleave(history_default(t0), inf_times[node], rec_times[node], t0)]

\* times[len(initial_infecteds):]
Strip(s, k) == SubSeq(s, k + 1, Len(s))

\* {node:time for (node,time) in pred_inf_time.items() if status[node]!='S'}: every
\* key of a node that is not 'S' holds a finite time (Inf is the default of a key
\* never written)
full_data_infection_times ==
    [n \in {m \in Nodes : status[m] # "S" /\ pred_inf_time[m] < Inf} |-> Number(pred_inf_time[n])]

\* {node:time for (node,time) in rec_time.items() if status[node] =='R'}
full_data_recovery_times ==
    [n \in {m \in Nodes : status[m] = "R"} |-> Number(rec_time[n])]

\* end of the `while Q` loop of fast_nonMarkov_SIR and the strip of the seeding records
return_fast_SIR ==
    /\ engine = "fast_nonMarkov_SIR"
    /\ pc = "drain"
    /\ myQueue_len(Q) = 0
    /\ times' = Strip(times, Len(initial_infecteds))
    /\ S' = Strip(S, Len(initial_infecteds))
    /\ I' = Strip(I, Len(initial_infecteds))
    /\ R' = Strip(R, Len(initial_infecteds))
    /\ node_history' =
          IF return_full_data
          THEN transform_SIR(full_data_infection_times, full_data_recovery_times, tmin)
          ELSE node_history
    /\ pc' = "done"
    /\ UNCHANGED <<unitvars, cfgvars, discvars, status, evvars, infection_times, recovery_times, gilvars>>

\* the seeding loop `for u in initial_infecteds: Q.add(tmin, ...)`
RECURSIVE seed_queue(_, _, _, _)
seed_queue(q, seeds, function, t) ==
    IF seeds = <<>> THEN q
    ELSE seed_queue(myQueue_add(q, t, function, Head(seeds), NoNode, <<>>),
                    Tail(seeds), function, t)

\* ------------------------------------------------ event-driven SIS
\* random.expovariate(rate): a finite non-negative draw
ExpDraws == 0..MaxDelay

\* the events a run may enqueue before the model stops following it
EventCap == Q.counter < MaxEvents

\* a variant that enqueues the attempt whether or not the source is still infected then
_find_next_trans_SIS_Markov_any_time(q, time, source, target, rt, d1, d2) ==
    IF rt[target] < rt[source]
    THEN LET t1 == time + d1
             transmission_time == IF t1 < rt[target] THEN rt[target] + d2 ELSE t1
         IN myQueue_add(q, transmission_time, "_process_trans_SIS_Markov", target, source, <<>>)
    ELSE q

\* _find_next_trans_SIS_Markov with its two exponential draws d1, d2
_find_next_trans_SIS_Markov(q, time, source, target, rt, d1, d2) ==
    IF rt[target] < rt[source]
    THEN LET t1 == time + d1
             transmission_time == IF t1 < rt[target] THEN rt[target] + d2 ELSE t1
         IN IF transmission_time < rt[source] /\ transmission_time < q.tmax
            THEN myQueue_add(q, transmission_time, "_process_trans_SIS_Markov", target, source, <<>>)
            ELSE q
    ELSE q

\* `for v in G.neighbors(target): _find_next_trans_SIS_Markov(..., target, v, ...)`
RECURSIVE rearm_neighbors_Markov(_, _, _, _, _, _, _)
rearm_neighbors_Markov(q, vs, time, target, rt, d1, d2) ==
    IF vs = <<>> THEN q
    ELSE rearm_neighbors_Markov(
            _find_next_trans_SIS_Markov(q, time, target, Head(vs), rt, d1[Head(vs)], d2[Head(vs)]),
            Tail(vs), time, target, rt, d1, d2)

_process_trans_SIS_Markov(time, source, target, Q1) ==
    \E s1 \in ExpDraws : \E s2 \in ExpDraws :
        IF status[target] = "S"
        THEN \E rec_delay \in ExpDraws :
             \E d1 \in [neighbors(G, target) -> ExpDraws] :
             \E d2 \in [neighbors(G, target) -> ExpDraws] :
                LET rt == [rec_time EXCEPT ![target] = time + rec_delay]
                    Q2 == IF rt[target] < Q1.tmax
                          THEN myQueue_add(Q1, rt[target], "_process_rec_SIS_", target, NoNode, <<>>)
                          ELSE Q1
                    Q3 == rearm_neighbors_Markov(Q2, SetToSeq(neighbors(G, target)),
                                                 time, target, rt, d1, d2)
                IN /\ status' = [status EXCEPT ![target] = "I"]
                   /\ I' = Append(I, Last(I) + 1)
                   /\ S' = Append(S, Last(S) - 1)
                   /\ times' = Append(times, time)
                   /\ rec_time' = rt
                   /\ infection_times' = [infection_times EXCEPT ![target] = Append(@, time)]
                   /\ Q' = IF source # NoNode
                           THEN _find_next_trans_SIS_Markov(Q3, time, source, target, rt, s1, s2)
                           ELSE Q3
                   /\ UNCHANGED <<R, pred_inf_time, recovery_times, node_history>>
        ELSE /\ Q' = IF source # NoNode
                     THEN _find_next_trans_SIS_Markov(Q1, time, source, target, rec_time, s1, s2)
                     ELSE Q1
             /\ UNCHANGED <<status, I, S, R, times, rec_time, pred_inf_time, hist>>

_process_rec_SIS_(time, node, Q1) ==
    /\ times' = Append(times, time)
    /\ recovery_times' = [recovery_times EXCEPT ![node] = Append(@, time)]
    /\ S' = Append(S, Last(S) + 1)
    /\ I' = Append(I, Last(I) - 1)
    /\ status' = [status EXCEPT ![node] = "S"]
    /\ Q' = Q1
    /\ UNCHANGED <<R, rec_time, pred_inf_time, infection_times, node_history>>

\* the lists of transmission delays a joint SIS delay function may return per neighbour
RECURSIVE SeqsUpTo(_, _)
SeqsUpTo(A, n) == IF n = 0 THEN {<<>>}
                  ELSE LET shorter == SeqsUpTo(A, n - 1)
                       IN shorter \cup {Append(s, a) : s \in shorter, a \in A}

DelayLists == SeqsUpTo(ExpDraws, MaxList)

\* [time for time in ts if time > bound]
RECURSIVE Later(_, _)
Later(ts, bound) ==
    IF ts = <<>> THEN <<>>
    ELSE IF Head(ts) > bound THEN <<Head(ts)>> \o Later(Tail(ts), bound)
         ELSE Later(Tail(ts), bound)

AddTime(time, tds) == [i \in 1..Len(tds) |-> time + tds[i]]

\* `for v in G.neighbors(target)` of _process_trans_SIS_nonMarkov_
RECURSIVE schedule_trans_SIS(_, _, _, _, _, _)
schedule_trans_SIS(q, vs, time, trans_delays, st, rt) ==
    IF vs = <<>> THEN q
    ELSE LET v == Head(vs)
             all_times == AddTime(time, trans_delays[v])
             trans_times == IF st[v] = "I" THEN Later(all_times, rt[v]) ELSE all_times
             q1 == IF trans_delays[v] # <<>> /\ trans_times # <<>>
                   THEN myQueue_add(q, trans_times[1], "_process_trans_SIS_nonMarkov_",
                                    v, NoNode, Tail(trans_times))
                   ELSE q
         IN schedule_trans_SIS(q1, Tail(vs), time, trans_delays, st, rt)

\* the trailing re-arm of the stored future_transmissions of `target`
rearm_future_SIS(q, target, future_transmissions, rt) ==
    LET trans_times == Later(future_transmissions, rt[target])
    IN IF trans_times # <<>>
       THEN myQueue_add(q, trans_times[1], "_process_trans_SIS_nonMarkov_",
                        target, NoNode, Tail(trans_times))
       ELSE q

_process_trans_SIS_nonMarkov_(time, target, future_transmissions, Q1) ==
    IF status[target] = "S"
    THEN \E rec_delay \in Delays :
         \E trans_delays \in [neighbors(G, target) -> DelayLists] :
            LET st == [status EXCEPT ![target] = "I"]
                rt == [rec_time EXCEPT ![target] = Plus(time, rec_delay)]
                Q2 == IF rt[target] < Q1.tmax
                      THEN myQueue_add(Q1, rt[target], "_process_rec_SIS_", target, NoNode, <<>>)
                      ELSE Q1
                Q3 == schedule_trans_SIS(Q2, SetToSeq(neighbors(G, target)), time, trans_delays, st, rt)
            IN /\ status' = st
               /\ infection_times' = [infection_times EXCEPT ![target] = Append(@, time)]
               /\ times' = Append(times, time)
               /\ I' = Append(I, Last(I) + 1)
               /\ S' = Append(S, Last(S) - 1)
               /\ rec_time' = rt
               /\ Q' = rearm_future_SIS(Q3, target, future_transmissions, rt)
               /\ UNCHANGED <<R, pred_inf_time, recovery_times, node_history>>
    ELSE /\ Q' = rearm_future_SIS(Q1, target, future_transmissions, rec_time)
         /\ UNCHANGED <<status, I, S, R, times, rec_time, pred_inf_time, hist>>

\* Q.pop_and_run() of an event of the SIS engines
pop_and_run_SIS ==
    /\ engine \in {"fast_SIS", "fast_nonMarkov_SIS"}
    /\ pc = "drain"
    /\ myQueue_len(Q) > 0
    /\ EventCap
    /\ LET e == heappop(Q)
           Q1 == [Q EXCEPT !.heap = @ \ {e}]
       IN \/ /\ e.function = "_process_trans_SIS_Markov"
             /\ _process_trans_SIS_Markov(e.time, e.source, e.node, Q1)
          \/ /\ e.function = "_process_trans_SIS_nonMarkov_"
             /\ _process_trans_SIS_nonMarkov_(e.time, e.node, e.future, Q1)
          \/ /\ e.function = "_process_rec_SIS_"
             /\ _process_rec_SIS_(e.time, e.node, Q1)
    /\ UNCHANGED <<unitvars, cfgvars, discvars, gilvars, pc>>

\* end of the `while Q` loop of fast_SIS / fast_nonMarkov_SIS and the strip
return_fast_SIS ==
    /\ engine \in {"fast_SIS", "fast_nonMarkov_SIS"}
    /\ pc = "drain"
    /\ myQueue_len(Q) = 0
    /\ times' = Strip(times, Len(initial_infecteds))
    /\ S' = Strip(S, Len(initial_infecteds))
    /\ I' = Strip(I, Len(initial_infecteds))
    /\ node_history' = IF return_full_data
                       THEN transform_SIS(infection_times, recovery_times, tmin)
                       ELSE node_history
    /\ pc' = "done"
    /\ UNCHANGED <<unitvars, cfgvars, discvars, status, evvars, R, infection_times, recovery_times, gilvars>>

\* ------------------------------------------------------- _ListDict_
_ListDict_init == [items |-> <<>>, item_to_position |-> <<>>]

_ListDict_len(ld) == Len(ld.items)

_ListDict_has(ld, item) == item \in DOMAIN ld.item_to_position

\* add without the membership test
_ListDict_add_again(ld, item) ==
    [items |-> Append(ld.items, item),
     item_to_position |->
         [x \in DOMAIN ld.item_to_position \cup {item} |->
             IF x = item THEN Len(ld.items) ELSE ld.item_to_position[x]]]

\* positions are list indices counted from 0, as in the source
_ListDict_add(ld, item) ==
    IF _ListDict_has(ld, item) THEN ld
    ELSE [items |-> Append(ld.items, item),
          item_to_position |->
              [x \in DOMAIN ld.item_to_position \cup {item} |->
                  IF x = item THEN Len(ld.items) ELSE ld.item_to_position[x]]]

\* remove that leaves the moved item's recorded position alone
_ListDict_remove_stale_position(ld, item) ==
    LET position == ld.item_to_position[item]
        popped == [x \in DOMAIN ld.item_to_position \ {item} |-> ld.item_to_position[x]]
        last_item == Last(ld.items)
        shorter == SubSeq(ld.items, 1, Len(ld.items) - 1)
    IN IF position # Len(shorter)
       THEN [items |-> [shorter EXCEPT ![position + 1] = last_item],
             item_to_position |-> popped]
       ELSE [items |-> shorter, item_to_position |-> popped]

\* remove that truncates the list without moving the last item into the hole
_ListDict_remove_no_swap(ld, item) ==
    [items |-> SubSeq(ld.items, 1, Len(ld.items) - 1),
     item_to_position |-> [x \in DOMAIN ld.item_to_position \ {item} |-> ld.item_to_position[x]]]

\* remove of a present item (an absent item raises KeyError: see the callers)
_ListDict_remove(ld, item) ==
    LET position == ld.item_to_position[item]
        popped == [x \in DOMAIN ld.item_to_position \ {item} |-> ld.item_to_position[x]]
        last_item == Last(ld.items)
        shorter == SubSeq(ld.items, 1, Len(ld.items) - 1)
    IN IF position # Len(shorter)
       THEN [items |-> [shorter EXCEPT ![position + 1] = last_item],
             item_to_position |-> [popped EXCEPT ![last_item] = position]]
       ELSE [items |-> shorter, item_to_position |-> popped]

\* the values random.choice(self.items) can return
_ListDict_choose_random(ld) == Range(ld.items)

\* ------------------------------------------------ Gillespie engines
\* risk_group is a defaultdict: a key exists once it has been looked up
rg_get(rg, n) == IF n \in DOMAIN rg THEN rg[n] ELSE _ListDict_init

rg_set(rg, n, ld) == [k \in DOMAIN rg \cup {n} |-> IF k = n THEN ld ELSE rg[k]]

\* risk_group[n].remove(node) on the state st = [rg, cnt, err]
rg_remove(st, n, node) ==
    IF st.err # "" THEN st
    ELSE IF _ListDict_has(rg_get(st.rg, n), node)
         THEN [st EXCEPT !.rg = rg_set(st.rg, n, _ListDict_remove(rg_get(st.rg, n), node))]
         ELSE [st EXCEPT !.rg = rg_set(st.rg, n, rg_get(st.rg, n)), !.err = "KeyError"]

\* risk_group[n].add(node)
rg_add(st, n, node) ==
    IF st.err # "" THEN st
    ELSE [st EXCEPT !.rg = rg_set(st.rg, n, _ListDict_add(rg_get(st.rg, n), node))]

RECURSIVE SumSeq(_)
SumSeq(s) == IF s = <<>> THEN 0 ELSE Head(s) + SumSeq(Tail(s))

\* sum(n*len(risk_group[n]) for n in risk_group.keys())
total_weighted_size(rg) ==
    LET keys == SetToSeq(DOMAIN rg)
    IN SumSeq([i \in 1..Len(keys) |-> keys[i] * _ListDict_len(rg[keys[i]])])

\* a susceptible neighbour gains an infected neighbour (initialisation loop body)
raise_risk_init(st, neighbor) ==
    LET c == st.cnt[neighbor] + 1
        st1 == [st EXCEPT !.cnt[neighbor] = c]
        st2 == IF c > 1 THEN rg_remove(st1, c - 1, neighbor) ELSE st1
    IN rg_add(st2, c, neighbor)

\* a susceptible neighbour gains an infected neighbour (loop body of _Gillespie_infect_)
raise_risk(st, neighbor) ==
    LET c == st.cnt[neighbor]
        st1 == IF c > 0 THEN rg_remove(st, c, neighbor) ELSE st
        st2 == IF st1.err # "" THEN st1 ELSE [st1 EXCEPT !.cnt[neighbor] = c + 1]
    IN rg_add(st2, c + 1, neighbor)

\* lower_risk that never puts the neighbour back into a bucket
lower_risk_dropped(st, neighbor) ==
    LET c == st.cnt[neighbor]
        st1 == rg_remove(st, c, neighbor)
    IN IF st1.err # "" THEN st1 ELSE [st1 EXCEPT !.cnt[neighbor] = c - 1]

\* a susceptible neighbour loses an infected neighbour (loop body of the recover functions)
lower_risk(st, neighbor) ==
    LET c == st.cnt[neighbor]
        st1 == rg_remove(st, c, neighbor)
        st2 == IF st1.err # "" THEN st1 ELSE [st1 EXCEPT !.cnt[neighbor] = c - 1]
    IN IF c - 1 > 0 THEN rg_add(st2, c - 1, neighbor) ELSE st2

\* `for node in initial_infecteds: for neighbor in G.neighbors(node): if status[neighbor]=='S'`
RECURSIVE init_risk_neighbors(_, _, _)
init_risk_neighbors(st, vs, stat) ==
    IF vs = <<>> THEN st
    ELSE init_risk_neighbors(IF stat[Head(vs)] = "S" THEN raise_risk_init(st, Head(vs)) ELSE st,
                             Tail(vs), stat)

RECURSIVE init_risk(_, _, _, _)
init_risk(st, seeds, g, stat) ==
    IF seeds = <<>> THEN st
    ELSE init_risk(init_risk_neighbors(st, SetToSeq(neighbors(g, Head(seeds))), stat),
                   Tail(seeds), g, stat)

\* the neighbour loop of _Gillespie_infect_
RECURSIVE infect_neighbors(_, _, _)
infect_neighbors(st, vs, stat) ==
    IF vs = <<>> THEN st
    ELSE infect_neighbors(IF stat[Head(vs)] = "S" THEN raise_risk(st, Head(vs)) ELSE st,
                          Tail(vs), stat)

\* the neighbour loop of _Gillespie_recover_SIR_
RECURSIVE recover_neighbors_SIR(_, _, _)
recover_neighbors_SIR(st, vs, stat) ==
    IF vs = <<>> THEN st
    ELSE recover_neighbors_SIR(IF stat[Head(vs)] = "S" THEN lower_risk(st, Head(vs)) ELSE st,
                               Tail(vs), stat)

\* the neighbour loop of _Gillespie_recover_SIS_
RECURSIVE recover_neighbors_SIS(_, _, _, _)
recover_neighbors_SIS(st, vs, stat, recovering_node) ==
    IF vs = <<>> \/ st.err # "" THEN st
    ELSE LET neighbor == Head(vs)
             st1 == IF neighbor = recovering_node THEN st
                    ELSE IF stat[neighbor] = "I"
                         THEN [st EXCEPT !.cnt[recovering_node] = @ + 1]
                         ELSE lower_risk(st, neighbor)
         IN recover_neighbors_SIS(st1, Tail(vs), stat, recovering_node)

\* a scan that stops as soon as r is used up, `if r<=0`
RECURSIVE scan_bucket_at_zero(_, _, _)
scan_bucket_at_zero(keys, rg, r) ==
    LET n == Head(keys)
        r1 == r - n * _ListDict_len(rg[n])
    IN IF r1 <= 0 \/ Len(keys) = 1 THEN n ELSE scan_bucket_at_zero(Tail(keys), rg, r1)

\* the linear scan of _Gillespie_infect_: the key n on which `r -= n*len; if r<0: break` stops,
\* or the last key when the scan runs to its end
RECURSIVE scan_bucket(_, _, _)
scan_bucket(keys, rg, r) ==
    LET n == Head(keys)
        r1 == r - n * _ListDict_len(rg[n])
    IN IF r1 < 0 \/ Len(keys) = 1 THEN n ELSE scan_bucket(Tail(keys), rg, r1)

\* random.random()*w for an integer weight w: one representative per unit interval
UniformBelow(w) == IF w > 0 THEN 0..(w - 1) ELSE {0}

\* the steps of a run the model follows (a Gillespie run has no bound of its own)
RecordCap == Len(times) < MaxRecords

\* gillespie_rates that leaves next_time alone when the total rate is 0
gillespie_rates_never_inf(rg, rec_rate, dt) ==
    LET total_trans_rate == tau * total_weighted_size(rg)
        rate == rec_rate + total_trans_rate
    IN /\ total_rec_rate' = rec_rate
       /\ total_rate' = rate
       /\ next_time' = IF rate > 0 THEN Plus(next_time, dt) ELSE next_time

\* total_trans_rate, total_rate and next_time at the end of a loop iteration
gillespie_rates(rg, rec_rate, dt) ==
    LET total_trans_rate == tau * total_weighted_size(rg)
        rate == rec_rate + total_trans_rate
    IN /\ total_rec_rate' = rec_rate
       /\ total_rate' = rate
       /\ next_time' = IF rate > 0 THEN Plus(next_time, dt)
                       ELSE IF engine = "Gillespie_SIS" THEN Inf ELSE next_time

_Gillespie_infect_(dt) ==
    \E r \in UniformBelow(total_weighted_size(risk_group)) :
        IF DOMAIN risk_group = {}
        THEN pc' = "NameError"
             /\ UNCHANGED <<status, series, hist, gilvars>>
        ELSE LET n == scan_bucket(SetToSeq(DOMAIN risk_group), risk_group, r)
             IN IF _ListDict_len(risk_group[n]) = 0
                THEN pc' = "IndexError"
                     /\ UNCHANGED <<status, series, hist, gilvars>>
                ELSE \E recipient \in _ListDict_choose_random(risk_group[n]) :
                     IF status[recipient] # "S"
                     THEN pc' = "AssertionError"
                          /\ UNCHANGED <<status, series, hist, gilvars>>
                     ELSE LET st0 == rg_remove([rg |-> risk_group, cnt |-> infected_neighbor_count,
                                                err |-> ""], n, recipient)
                              stat == [status EXCEPT ![recipient] = "I"]
                              st == infect_neighbors(st0, SetToSeq(neighbors(G, recipient)), stat)
                          IN IF st.err # ""
                             THEN pc' = st.err
                                  /\ UNCHANGED <<status, series, hist, gilvars>>
                             ELSE /\ infected' = Append(infected, recipient)
                                  /\ infection_times' = [infection_times EXCEPT
                                                           ![recipient] = Append(@, next_time)]
                                  /\ status' = stat
                                  /\ S' = Append(S, Last(S) - 1)
                                  /\ I' = Append(I, Last(I) + 1)
                                  /\ times' = Append(times, next_time)
                                  /\ R' = IF engine = "Gillespie_SIR" THEN Append(R, Last(R)) ELSE R
                                  /\ risk_group' = st.rg
                                  /\ infected_neighbor_count' = st.cnt
                                  /\ gillespie_rates(st.rg, total_rec_rate, dt)
                                  /\ UNCHANGED <<recovery_times, node_history, pc>>

\* infected[index], infected[-1] = infected[-1], infected[index]; infected.pop()
swap_and_pop(list, index) ==
    LET swapped == [list EXCEPT ![index + 1] = Last(list), ![Len(list)] = list[index + 1]]
    IN [node |-> Last(swapped), rest |-> SubSeq(swapped, 1, Len(swapped) - 1)]

_Gillespie_recover_SIR_(dt) ==
    \E index \in 0..(Last(I) - 1) :
        IF index >= Len(infected)
        THEN pc' = "IndexError"
             /\ UNCHANGED <<status, series, hist, gilvars>>
        ELSE LET sp == swap_and_pop(infected, index)
                 recovering_node == sp.node
                 stat == [status EXCEPT ![recovering_node] = "R"]
                 st == recover_neighbors_SIR([rg |-> risk_group, cnt |-> infected_neighbor_count,
                                              err |-> ""],
                                             SetToSeq(neighbors(G, recovering_node)), stat)
             IN IF st.err # ""
                THEN pc' = st.err
                     /\ UNCHANGED <<status, series, hist, gilvars>>
                ELSE /\ infected' = sp.rest
                     /\ I' = Append(I, Last(I) - 1)
                     /\ status' = stat
                     /\ S' = Append(S, Last(S))
                     /\ R' = Append(R, Last(R) + 1)
                     /\ times' = Append(times, next_time)
                     /\ risk_group' = st.rg
                     /\ infected_neighbor_count' = st.cnt
                     /\ recovery_times' = IF return_full_data
                                          THEN [recovery_times EXCEPT
                                                  ![recovering_node] = Append(@, next_time)]
                                          ELSE recovery_times
                     /\ gillespie_rates(st.rg, gamma * (Last(I) - 1), dt)
                     /\ UNCHANGED <<infection_times, pc, node_history>>

_Gillespie_recover_SIS_(dt) ==
    IF Last(I) # Len(infected)
    THEN pc' = "AssertionError"
         /\ UNCHANGED <<status, series, hist, gilvars>>
    ELSE \E index \in 0..(Last(I) - 1) :
        LET sp == swap_and_pop(infected, index)
            recovering_node == sp.node
            stat == [status EXCEPT ![recovering_node] = "S"]
            st0 == [rg |-> risk_group,
                    cnt |-> [infected_neighbor_count EXCEPT ![recovering_node] = 0],
                    err |-> ""]
            st1 == recover_neighbors_SIS(st0, SetToSeq(neighbors(G, recovering_node)),
                                         stat, recovering_node)
            st == IF st1.cnt[recovering_node] > 0
                  THEN rg_add(st1, st1.cnt[recovering_node], recovering_node)
                  ELSE st1
        IN IF st.err # ""
           THEN pc' = st.err
                /\ UNCHANGED <<status, series, hist, gilvars>>
           ELSE /\ infected' = sp.rest
                /\ I' = Append(I, Last(I) - 1)
                /\ status' = stat
                /\ S' = Append(S, Last(S) + 1)
                /\ times' = Append(times, next_time)
                /\ risk_group' = st.rg
                /\ infected_neighbor_count' = st.cnt
                /\ recovery_times' = IF return_full_data
                                     THEN [recovery_times EXCEPT
                                             ![recovering_node] = Append(@, next_time)]
                                     ELSE recovery_times
                /\ gillespie_rates(st.rg, gamma * (Last(I) - 1), dt)
                /\ UNCHANGED <<R, infection_times, pc, node_history>>

\* next_time = times[-1] + random.expovariate(total_rate), before the loop
Gillespie_first_draw ==
    /\ engine \in {"Gillespie_SIR", "Gillespie_SIS"}
    /\ pc = "start"
    /\ IF total_rate = 0
       THEN pc' = "ZeroDivisionError" /\ UNCHANGED next_time
       ELSE \E dt \in ExpDraws : next_time' = Plus(Last(times), dt) /\ pc' = "loop"
    /\ UNCHANGED <<unitvars, cfgvars, discvars, status, evvars, series, hist, infected, infected_neighbor_count,
                   risk_group, total_rec_rate, total_rate>>

\* one iteration of `while next_time<tmax and infected` of Gillespie_SIR
Gillespie_SIR_iteration ==
    /\ engine = "Gillespie_SIR"
    /\ pc = "loop"
    /\ next_time < tmax /\ infected # <<>>
    /\ \E r \in UniformBelow(total_rate) : \E dt \in ExpDraws :
          IF r < total_rec_rate THEN _Gillespie_recover_SIR_(dt) ELSE _Gillespie_infect_(dt)
    /\ UNCHANGED <<unitvars, cfgvars, discvars, evvars>>

\* one iteration of `while next_time<tmax and infected` of Gillespie_SIS
Gillespie_SIS_iteration ==
    /\ engine = "Gillespie_SIS"
    /\ pc = "loop"
    /\ next_time < tmax /\ infected # <<>>
    /\ RecordCap
    /\ \E r \in UniformBelow(total_rate) : \E dt \in ExpDraws :
          IF r < total_rec_rate THEN _Gillespie_recover_SIS_(dt) ELSE _Gillespie_infect_(dt)
    /\ UNCHANGED <<unitvars, cfgvars, discvars, evvars>>

\* the loop condition fails: the series is returned as it stands
Gillespie_return ==
    /\ engine \in {"Gillespie_SIR", "Gillespie_SIS"}
    /\ pc = "loop"
    /\ ~(next_time < tmax /\ infected # <<>>)
    /\ node_history' =
          IF ~return_full_data THEN node_history
          ELSE IF engine = "Gillespie_SIR"
          THEN \* the lists themselves are passed on, not their first elements
               transform_SIR(
                  [n \in {m \in Nodes : infection_times[m] # <<>>} |-> List(infection_times[n])],
                  [n \in {m \in Nodes : recovery_times[m] # <<>>} |-> List(recovery_times[n])],
                  tmin)
          ELSE transform_SIS(infection_times, recovery_times, tmin)
    /\ pc' = "done"
    /\ UNCHANGED <<unitvars, cfgvars, discvars, status, evvars, series, infection_times, recovery_times,
                   gilvars>>

TimeConfigs == {c \in [tmin : 0..1, tmax : (1..MaxT) \cup {Inf}] : c.tmin <= c.tmax}

RecoveredSets == {A \in SUBSET Nodes : Cardinality(A) <= MaxRecovered}

\* an engine run drives no object call by call
NoCalls ==
    /\ LD = [items |-> <<>>, item_to_position |-> <<>>]
    /\ calls = <<>>
    /\ args = NoArguments

NoHistory ==
    /\ infection_times = [n \in Nodes |-> <<>>]
    /\ recovery_times = [n \in Nodes |-> <<>>]
    /\ node_history = <<>>

\* basic_discrete_SIS is not running
NoDiscrete == p = 0 /\ infecteds = {}

NoGillespie ==
    /\ tau = 0 /\ gamma = 0
    /\ infected = <<>>
    /\ infected_neighbor_count = [n \in Nodes |-> 0]
    /\ risk_group = <<>>
    /\ total_rec_rate = 0 /\ total_rate = 0 /\ next_time = 0

\* fast_nonMarkov_SIR up to the drain loop
Init_fast_SIR ==
    /\ engine = "fast_nonMarkov_SIR"
    /\ G \in Graphs
    /\ \E c \in TimeConfigs : tmin = c.tmin /\ tmax = c.tmax
    /\ \E A \in SUBSET Nodes : initial_infecteds = SetToSeq(A)
    /\ initial_recovereds \in RecoveredSets
    /\ status = [n \in Nodes |-> IF n \in initial_recovereds THEN "R" ELSE "S"]
    /\ rec_time = [n \in Nodes |-> tmin - 1]
    /\ pred_inf_time = [n \in Nodes |-> IF n \in Range(initial_infecteds) THEN tmin ELSE Inf]
    /\ Q = seed_queue(myQueue_init(tmax), initial_infecteds, "_process_trans_SIR_", tmin)
    /\ times = <<tmin>> /\ S = <<order>> /\ I = <<0>> /\ R = <<0>>
    /\ NoHistory
    /\ NoGillespie
    /\ NoDiscrete
    /\ pc = "drain"
    /\ NoCalls

\* fast_SIS and fast_nonMarkov_SIS up to the drain loop
Init_fast_SIS ==
    /\ engine \in {"fast_SIS", "fast_nonMarkov_SIS"}
    /\ G \in Graphs
    /\ \E c \in TimeConfigs : tmin = c.tmin /\ tmax = c.tmax
    /\ \E A \in SUBSET Nodes : initial_infecteds = SetToSeq(A)
    /\ initial_recovereds = {}
    /\ status = [n \in Nodes |-> "S"]
    /\ rec_time = IF engine = "fast_SIS"
                  THEN [n \in Nodes \cup {NoNode} |-> IF n = NoNode THEN tmin ELSE tmin - 1]
                  ELSE [n \in Nodes |-> tmin - 1]
    /\ pred_inf_time = [n \in Nodes |-> Inf]
    /\ Q = seed_queue(myQueue_init(tmax), initial_infecteds,
                      IF engine = "fast_SIS" THEN "_process_trans_SIS_Markov"
                      ELSE "_process_trans_SIS_nonMarkov_", tmin)
    /\ times = <<tmin>> /\ S = <<order>> /\ I = <<0>> /\ R = <<>>
    /\ NoHistory
    /\ NoGillespie
    /\ NoDiscrete
    /\ pc = "drain"
    /\ NoCalls

\* _Gillespie_initialize_SIR_ / _Gillespie_initialize_SIS_ and the first rate computation
Init_Gillespie ==
    /\ engine \in {"Gillespie_SIR", "Gillespie_SIS"}
    /\ G \in Graphs
    /\ \E c \in TimeConfigs : tmin = c.tmin /\ tmax = c.tmax
    /\ tau \in 0..MaxRate /\ gamma \in 0..MaxRate
    /\ NoDiscrete
    /\ \E A \in SUBSET Nodes : initial_infecteds = SetToSeq(A)
    /\ initial_recovereds \in (IF engine = "Gillespie_SIR" THEN RecoveredSets ELSE {{}})
    /\ times = <<tmin>>
    /\ S = <<order - Len(initial_infecteds)>>
    /\ I = <<Len(initial_infecteds)>>
    /\ R = IF engine = "Gillespie_SIR" THEN <<0>> ELSE <<>>
    /\ status = [n \in Nodes |-> IF n \in initial_recovereds THEN "R"
                                 ELSE IF n \in Range(initial_infecteds) THEN "I" ELSE "S"]
    /\ infected = initial_infecteds
    /\ LET st == init_risk([rg |-> <<>>, cnt |-> [n \in Nodes |-> 0], err |-> ""],
                           initial_infecteds, G, status)
       IN /\ risk_group = st.rg
          /\ infected_neighbor_count = st.cnt
          /\ pc = IF st.err # "" THEN st.err ELSE "start"
    /\ NoCalls
    /\ infection_times = [n \in Nodes |-> IF return_full_data /\ n \in Range(initial_infecteds)
                                          THEN <<tmin>> ELSE <<>>]
    /\ recovery_times = [n \in Nodes |-> IF return_full_data /\ n \in initial_recovereds
                                         THEN <<tmin - 1>> ELSE <<>>]
    /\ node_history = <<>>
    /\ total_rec_rate = gamma * Len(infected)
    /\ total_rate = total_rec_rate + tau * total_weighted_size(risk_group)
    /\ next_time = tmin
    /\ rec_time = [n \in Nodes |-> tmin - 1]
    /\ pred_inf_time = [n \in Nodes |-> Inf]
    /\ Q = myQueue_init(tmax)

Init == Init_fast_SIR \/ Init_fast_SIS \/ Init_Gillespie

Next ==
    \/ pop_and_run_SIR
    \/ return_fast_SIR
    \/ pop_and_run_SIS
    \/ return_fast_SIS
    \/ Gillespie_first_draw
    \/ Gillespie_SIR_iteration
    \/ Gillespie_SIS_iteration
    \/ Gillespie_return

Spec == Init /\ [][Next]_vars

\* the event-driven SIR engine alone
Next_fast_SIR == pop_and_run_SIR \/ return_fast_SIR

SpecFastSIR == Init_fast_SIR /\ [][Next_fast_SIR]_vars

\* `while Q: Q.pop_and_run()` goes on until the queue is empty, and the return follows
SpecFastSIRFair ==
    /\ Init_fast_SIR
    /\ [][Next_fast_SIR]_vars
    /\ WF_vars(pop_and_run_SIR)
    /\ WF_vars(return_fast_SIR)

\* the two Gillespie engines alone
Next_Gillespie ==
    \/ Gillespie_first_draw
    \/ Gillespie_SIR_iteration
    \/ Gillespie_SIS_iteration
    \/ Gillespie_return

SpecGillespie == Init_Gillespie /\ [][Next_Gillespie]_vars

\* ------------------------------------------------ basic_discrete_SIS
\* the probabilities at which `random.random()<p` is decided
Probabilities == {0, 1}

\* the outcomes of `random.random()<p`
Transmits(prob) == IF prob >= 1 THEN {TRUE} ELSE IF prob <= 0 THEN {FALSE} ELSE BOOLEAN

\* {v for v in G.neighbors(u) if random.random()<p and v not in infecteds}
attempts(u, coin) == {v \in neighbors(G, u) : coin[u][v] /\ v \notin infecteds}

\* set.union returns a new set and leaves the set it is called on as it was
set_union(this, other) == [result |-> this \cup other, this |-> this]

\* `for u in infecteds: next_infecteds.union({...})`: the value of next_infecteds
\* after the loop
RECURSIVE collect(_, _, _)
collect(next_infecteds, us, coin) ==
    IF us = <<>> THEN next_infecteds
    ELSE collect(set_union(next_infecteds, attempts(Head(us), coin)).this, Tail(us), coin)

\* node_history[u][0].append(time); node_history[u][1].append(stat) for u in nodes,
\* on a defaultdict whose missing entries are ([tmin], ['S'])
append_all(nh, nodes, time, stat) ==
    [u \in DOMAIN nh \cup nodes |->
        IF u \in nodes
        THEN history_append(IF u \in DOMAIN nh THEN nh[u] ELSE history_default(tmin),
                            Number(time), stat)
        ELSE nh[u]]

\* basic_discrete_SIS up to its while loop
Init_discrete_SIS ==
    /\ engine = "basic_discrete_SIS"
    /\ G \in Graphs
    /\ \E c \in TimeConfigs : tmin = c.tmin /\ tmax = c.tmax
    /\ p \in Probabilities
    /\ \E A \in SUBSET Nodes : initial_infecteds = SetToSeq(A)
    /\ initial_recovereds = {}
    /\ infecteds = Range(initial_infecteds)
    /\ times = <<tmin>>
    /\ S = <<order - Len(initial_infecteds)>>
    /\ I = <<Len(initial_infecteds)>>
    /\ R = <<>>
    /\ node_history = IF return_full_data
                      THEN [u \in Range(initial_infecteds) |->
                               [times |-> <<Number(tmin)>>, statuses |-> <<"I">>]]
                      ELSE <<>>
    /\ infection_times = [n \in Nodes |-> <<>>]
    /\ recovery_times = [n \in Nodes |-> <<>>]
    /\ status = [n \in Nodes |-> "S"]
    /\ rec_time = [n \in Nodes |-> 0]
    /\ pred_inf_time = [n \in Nodes |-> Inf]
    /\ Q = myQueue_init(tmax)
    /\ NoGillespie
    /\ NoCalls
    /\ pc = "loop"

\* one iteration of `while infecteds and t[-1]<tmax`
discrete_SIS_step ==
    /\ engine = "basic_discrete_SIS"
    /\ pc = "loop"
    /\ infecteds # {} /\ Last(times) < tmax
    /\ \E coin \in [Nodes -> [Nodes -> Transmits(p)]] :
          LET next_infecteds == collect({}, SetToSeq(infecteds), coin)
              next_t == Last(times) + 1
          IN /\ node_history' =
                   IF return_full_data /\ next_t <= tmax
                   THEN append_all(append_all(node_history, infecteds, next_t, "S"),
                                   next_infecteds, next_t, "I")
                   ELSE node_history
             /\ infecteds' = next_infecteds
             /\ times' = Append(times, Last(times) + 1)
             /\ S' = Append(S, order - Cardinality(next_infecteds))
             /\ I' = Append(I, Cardinality(next_infecteds))
    /\ UNCHANGED <<cfgvars, p, status, evvars, R, infection_times, recovery_times, gilvars,
                   pc, unitvars>>

\* the loop condition fails: the series is returned
discrete_SIS_return ==
    /\ engine = "basic_discrete_SIS"
    /\ pc = "loop"
    /\ ~(infecteds # {} /\ Last(times) < tmax)
    /\ pc' = "done"
    /\ UNCHANGED <<cfgvars, discvars, status, evvars, series, hist, gilvars, unitvars>>

Next_discrete_SIS == discrete_SIS_step \/ discrete_SIS_return

SpecDiscreteSIS == Init_discrete_SIS /\ [][Next_discrete_SIS]_vars

\* ----------------------------------------- myQueue driven call by call
\* no engine is running: the engines' variables stay at fixed values
NoEngine ==
    /\ G = {}
    /\ initial_infecteds = <<>> /\ initial_recovereds = {}
    /\ tmin = 0
    /\ status = [n \in Nodes |-> "S"]
    /\ rec_time = [n \in Nodes |-> 0]
    /\ pred_inf_time = [n \in Nodes |-> Inf]
    /\ times = <<>> /\ S = <<>> /\ I = <<>> /\ R = <<>>
    /\ NoHistory
    /\ NoGillespie
    /\ NoDiscrete
    /\ args = NoArguments

enginevars == <<discvars, G, initial_infecteds, initial_recovereds, tmin, tmax, tau, gamma,
                status, rec_time, pred_inf_time, series, hist, gilvars, args>>

\* the times a caller passes to add
AddTimes == 0..MaxT

\* what add did to the queue: enqueued the event under the next counter, or nothing
AddOutcome(before, after, time, function, node) ==
    IF after = [before EXCEPT !.heap = @ \cup {Event(time, before.counter, function, node,
                                                       NoNode, <<>>)},
                              !.counter = @ + 1]
    THEN "queued"
    ELSE IF after = before THEN "dropped" ELSE "other"

\* the record of a call Q.add(time, callback, args = (token,)); the token is the
\* position of the record among the calls, so every event is told apart
AddCall(q, time, token) ==
    LET after == myQueue_add(q, time, "callback", token, NoNode, <<>>)
    IN [op |-> "add", time |-> time, token |-> token,
        outcome |-> AddOutcome(q, after, time, "callback", token)]

\* Q = myQueue(tmax)
Init_myQueue ==
    /\ engine = "myQueue"
    /\ tmax \in (1..MaxT) \cup {Inf}
    /\ Q = myQueue_init(tmax)
    /\ NoEngine
    /\ LD = _ListDict_init
    /\ calls = <<>>
    /\ pc = "calls"

\* Q.add(time, callback, args) by the caller
call_add ==
    /\ engine = "myQueue"
    /\ Len(calls) < MaxCalls
    /\ \E time \in AddTimes :
          /\ Q' = myQueue_add(Q, time, "callback", Len(calls) + 1, NoNode, <<>>)
          /\ calls' = Append(calls, AddCall(Q, time, Len(calls) + 1))
    /\ UNCHANGED <<engine, enginevars, pc, LD>>

\* Q.pop_and_run() by the caller; the callback records its arguments and may add
\* one event at its own time or later while it runs
call_pop_and_run ==
    /\ engine = "myQueue"
    /\ Len(calls) < MaxCalls
    /\ LET r == myQueue_pop_and_run(Q)
           ran == [op |-> "callback", time |-> r.event.time, token |-> r.event.node,
                   outcome |-> "ran"]
       IN IF r.raised # ""
          THEN /\ calls' = Append(calls, [op |-> r.raised, time |-> 0, token |-> 0,
                                          outcome |-> "raised"])
               /\ Q' = r.Q
          ELSE \/ /\ calls' = Append(calls, ran)
                  /\ Q' = r.Q
               \/ /\ Len(calls) + 1 < MaxCalls
                  /\ \E d \in 0..MaxDelay :
                        LET time == r.event.time + d
                        IN /\ Q' = myQueue_add(r.Q, time, "callback", Len(calls) + 2, NoNode, <<>>)
                           /\ calls' = calls \o <<ran, AddCall(r.Q, time, Len(calls) + 2)>>
    /\ UNCHANGED <<engine, enginevars, pc, LD>>

Next_myQueue == call_add \/ call_pop_and_run

SpecQueue == Init_myQueue /\ [][Next_myQueue]_vars

\* --------------------------------------- _ListDict_ driven call by call
\* the items a caller adds and removes (nodes, in the engines)
Items == 1..MaxItems

LDCall(op, item, outcome) == [op |-> op, item |-> item, before |-> LD, outcome |-> outcome]

\* L = _ListDict_()
Init_ListDict ==
    /\ engine = "_ListDict_"
    /\ tmax = Inf
    /\ Q = myQueue_init(tmax)
    /\ NoEngine
    /\ LD = _ListDict_init
    /\ calls = <<>>
    /\ pc = "calls"

\* L.add(item)
call_ListDict_add ==
    /\ engine = "_ListDict_"
    /\ Len(calls) < MaxOps
    /\ \E item \in Items :
          /\ LD' = _ListDict_add(LD, item)
          /\ calls' = Append(calls, LDCall("add", item, "returned"))
    /\ UNCHANGED <<engine, enginevars, Q, pc>>

\* L.remove(item) that returns normally for an absent item
call_ListDict_remove_absent_ignored ==
    /\ engine = "_ListDict_"
    /\ Len(calls) < MaxOps
    /\ \E item \in Items :
          /\ LD' = IF _ListDict_has(LD, item) THEN _ListDict_remove(LD, item) ELSE LD
          /\ calls' = Append(calls, LDCall("remove", item, "returned"))
    /\ UNCHANGED <<engine, enginevars, Q, pc>>

\* L.remove(item): item_to_position.pop(item) raises KeyError for an absent item
call_ListDict_remove ==
    /\ engine = "_ListDict_"
    /\ Len(calls) < MaxOps
    /\ \E item \in Items :
          IF _ListDict_has(LD, item)
          THEN /\ LD' = _ListDict_remove(LD, item)
               /\ calls' = Append(calls, LDCall("remove", item, "returned"))
          ELSE /\ LD' = LD
               /\ calls' = Append(calls, LDCall("remove", item, "KeyError"))
    /\ UNCHANGED <<engine, enginevars, Q, pc>>

\* L.choose_random(): random.choice raises IndexError on an empty list
call_ListDict_choose_random ==
    /\ engine = "_ListDict_"
    /\ Len(calls) < MaxOps
    /\ IF _ListDict_len(LD) = 0
       THEN calls' = Append(calls, LDCall("choose_random", 0, "IndexError"))
       ELSE \E item \in _ListDict_choose_random(LD) :
               calls' = Append(calls, LDCall("choose_random", item, "returned"))
    /\ UNCHANGED <<engine, enginevars, Q, pc, LD>>

Next_ListDict == call_ListDict_add \/ call_ListDict_remove \/ call_ListDict_choose_random

SpecListDict == Init_ListDict /\ [][Next_ListDict]_vars

\* ------------------- the bucket choice of _Gillespie_infect_ on its own
\* the risk levels a bucket can stand for
Levels == 1..MaxLevel

\* a _ListDict_ holding the items of a sequence, added in visit
RECURSIVE ListDictOf(_)
ListDictOf(items) ==
    IF items = <<>> THEN _ListDict_init
    ELSE _ListDict_add(ListDictOf(SubSeq(items, 1, Len(items) - 1)), Last(items))

\* the risk groups a call may find: every node in at most one bucket, and
\* buckets that were looked up and are empty
RiskGroups ==
    {[n \in K |-> ListDictOf(SetToSeq({v \in Nodes : level[v] = n}))] :
        <<K, level>> \in {pair \in (SUBSET Levels) \X [Nodes -> 0..MaxLevel] :
                             \A v \in Nodes : pair[2][v] # 0 => pair[2][v] \in pair[1]}}

\* the orders in which `for n in risk_group.keys()` may visit the keys
KeyOrders(rg) ==
    {visit \in [1..Cardinality(DOMAIN rg) -> DOMAIN rg] : Range(visit) = DOMAIN rg}

ChoiceCall(visit, r, n, recipient, outcome) ==
    [keys |-> visit, r |-> r, n |-> n, recipient |-> recipient, outcome |-> outcome]

Init_choice ==
    /\ engine = "_Gillespie_infect_"
    /\ tmax = Inf
    /\ Q = myQueue_init(tmax)
    /\ G = {}
    /\ initial_infecteds = <<>> /\ initial_recovereds = {}
    /\ tmin = 0
    /\ status = [n \in Nodes |-> "S"]
    /\ rec_time = [n \in Nodes |-> 0]
    /\ pred_inf_time = [n \in Nodes |-> Inf]
    /\ times = <<>> /\ S = <<>> /\ I = <<>> /\ R = <<>>
    /\ NoHistory
    /\ tau = 0 /\ gamma = 0
    /\ NoDiscrete
    /\ infected = <<>>
    /\ infected_neighbor_count = [n \in Nodes |-> 0]
    /\ risk_group \in RiskGroups
    /\ total_rec_rate = 0 /\ total_rate = 0 /\ next_time = 0
    /\ NoCalls
    /\ pc = "choose"

\* the first lines of _Gillespie_infect_: the draw, the scan and choose_random
choose_recipient ==
    /\ engine = "_Gillespie_infect_"
    /\ pc = "choose"
    /\ \E r \in UniformBelow(total_weighted_size(risk_group)) :
          IF DOMAIN risk_group = {}
          THEN /\ calls' = Append(calls, ChoiceCall(<<>>, r, 0, NoNode, "NameError"))
               /\ pc' = "NameError"
          ELSE \E visit \in KeyOrders(risk_group) :
                  LET n == scan_bucket(visit, risk_group, r)
                  IN IF _ListDict_len(risk_group[n]) = 0
                     THEN /\ calls' = Append(calls, ChoiceCall(visit, r, n, NoNode, "IndexError"))
                          /\ pc' = "IndexError"
                     ELSE \E recipient \in _ListDict_choose_random(risk_group[n]) :
                             /\ calls' = Append(calls,
                                                ChoiceCall(visit, r, n, recipient, "returned"))
                             /\ pc' = "chosen"
    /\ UNCHANGED <<cfgvars, discvars, status, evvars, series, hist, gilvars, LD, args>>

Next_choice == choose_recipient

SpecChoice == Init_choice /\ [][Next_choice]_vars

\* ------------------------------------------- the checks of the entry points
Engines == {"fast_nonMarkov_SIR", "fast_SIS", "fast_nonMarkov_SIS",
            "Gillespie_SIR", "Gillespie_SIS"}

TakesRecovereds(e) == e \in {"fast_nonMarkov_SIR", "Gillespie_SIR"}
TakesFunctions(e) == e \in {"fast_nonMarkov_SIR", "fast_nonMarkov_SIS"}

NodeLists == {SetToSeq(A) : A \in SUBSET Nodes}

\* the keyword arguments a caller may pass to entry point e
ArgumentSets(e) ==
    {Arguments(rho, inf, rec, t, r, j) :
        rho \in {None, Number(0), Number(1)},
        inf \in {None} \cup {Node(n) : n \in Nodes} \cup {List(l) : l \in NodeLists},
        rec \in IF TakesRecovereds(e)
                THEN {None} \cup {List(SetToSeq(A)) : A \in RecoveredSets}
                ELSE {None},
        t \in IF TakesFunctions(e) THEN BOOLEAN ELSE {FALSE},
        r \in IF TakesFunctions(e) THEN BOOLEAN ELSE {FALSE},
        j \in IF TakesFunctions(e) THEN BOOLEAN ELSE {FALSE}}

\* the test of the three function arguments that accepts a joint function given
\* together with both split functions
function_error_joint_wins(a) ==
    \/ (a.trans_time_fxn /\ ~a.rec_time_fxn) \/ (a.rec_time_fxn /\ ~a.trans_time_fxn)
    \/ (~a.trans_and_rec_time_fxn /\ ~a.trans_time_fxn)

\* the test of the three function arguments in fast_nonMarkov_SIR and fast_nonMarkov_SIS
function_error(a) ==
    \/ (a.trans_time_fxn /\ ~a.rec_time_fxn) \/ (a.rec_time_fxn /\ ~a.trans_time_fxn)
    \/ (a.trans_and_rec_time_fxn /\ a.trans_time_fxn)
    \/ (~a.trans_and_rec_time_fxn /\ ~a.trans_time_fxn)

\* the tests at the head of entry point e that raise EoN.EoNError
raises_EoNError(e, a) ==
    CASE e = "fast_nonMarkov_SIR" ->
            \/ (Truthy(a.rho) /\ Truthy(a.initial_infecteds))
            \/ (Truthy(a.rho) /\ Truthy(a.initial_recovereds))
            \/ function_error(a)
      [] e = "fast_nonMarkov_SIS" ->
            \/ (Truthy(a.rho) /\ Truthy(a.initial_infecteds))
            \/ function_error(a)
      [] OTHER -> a.rho.kind # "None" /\ a.initial_infecteds.kind # "None"

\* the lists `initial_infecteds` may be after the entry point has filled it in
infecteds_lists(a) ==
    CASE a.initial_infecteds.kind = "None" ->
            LET initial_number == IF a.rho.kind = "None" THEN 1 ELSE order * a.rho.num
            IN {SetToSeq(A) : A \in {B \in SUBSET Nodes : Cardinality(B) = initial_number}}
      [] a.initial_infecteds.kind = "node" -> {<<a.initial_infecteds.node>>}
      [] OTHER -> {a.initial_infecteds.list}

\* a call of an entry point, before its first statement
Init_call ==
    /\ engine \in Engines
    /\ args \in ArgumentSets(engine)
    /\ G = PathGraph
    /\ initial_infecteds = <<>> /\ initial_recovereds = {}
    /\ tmin = 0 /\ tmax = Inf
    /\ Q = myQueue_init(tmax)
    /\ status = [n \in Nodes |-> "S"]
    /\ rec_time = [n \in Nodes |-> 0]
    /\ pred_inf_time = [n \in Nodes |-> Inf]
    /\ times = <<>> /\ S = <<>> /\ I = <<>> /\ R = <<>>
    /\ NoHistory
    /\ NoGillespie
    /\ NoDiscrete
    /\ LD = _ListDict_init
    /\ calls = <<>>
    /\ pc = "call"

\* the head of the entry point: the tests of the arguments and the choice of the
\* initial infecteds; the set-up of the run follows from pc = "setup"
check_arguments ==
    /\ pc = "call"
    /\ IF raises_EoNError(engine, args)
       THEN /\ pc' = "EoNError"
            /\ UNCHANGED <<initial_infecteds, initial_recovereds>>
       ELSE /\ pc' = "setup"
            /\ initial_infecteds' \in infecteds_lists(args)
            /\ initial_recovereds' = Range(args.initial_recovereds.list)
    /\ UNCHANGED <<engine, G, tmin, tmax, tau, gamma, status, evvars, series, hist,
                   gilvars, unitvars, discvars>>

Next_call == check_arguments

SpecEntry == Init_call /\ [][Next_call]_vars

\* ------------------------------------------------------------ scenarios
\* event-driven SIR from one seed, nobody recovered at the start
Init_ScenarioA ==
    /\ Init_fast_SIR
    /\ Len(initial_infecteds) = 1
    /\ initial_recovereds = {}

\* the delay function of the scenario: recovery delay infinity and transmission
\* delay 0 to every susceptible neighbour of the node a step infects (the attempt
\* is queued for the time of the step unless one as early is queued already)
ZeroDelayNoRecovery ==
    \A u \in Nodes :
       (status[u] = "S" /\ status'[u] = "I") =>
          /\ rec_time'[u] = Inf
          /\ \A v \in neighbors(G, u) :
                status[v] = "S" => pred_inf_time'[v] <= heappop(Q).time

Next_ScenarioA ==
    \/ pop_and_run_SIR /\ ZeroDelayNoRecovery
    \/ return_fast_SIR

SpecScenarioA == Init_ScenarioA /\ [][Next_ScenarioA]_vars

\* Gillespie_SIS with a positive transmission rate and recovery rate 0, on a
\* graph with at most the one edge of the 2-clique
Init_ScenarioC ==
    /\ Init_Gillespie
    /\ engine = "Gillespie_SIS"
    /\ G \in {EmptyGraph, PairGraph}
    /\ gamma = 0 /\ tau > 0

Next_ScenarioC ==
    \/ Gillespie_first_draw
    \/ Gillespie_SIS_iteration
    \/ Gillespie_return

\* the entry point runs on: each of its steps is taken when it stays possible
SpecScenarioC ==
    /\ Init_ScenarioC /\ [][Next_ScenarioC]_vars
    /\ WF_vars(Gillespie_first_draw)
    /\ WF_vars(Gillespie_SIS_iteration)
    /\ WF_vars(Gillespie_return)

\* ------------------------------------------------------------ properties
IsSIR == engine \in {"fast_nonMarkov_SIR", "Gillespie_SIR"}
IsGillespie == engine \in {"Gillespie_SIR", "Gillespie_SIS"}
IsEventDriven == engine \in {"fast_nonMarkov_SIR", "fast_SIS", "fast_nonMarkov_SIS"}
Raised == pc \in {"ZeroDivisionError", "KeyError", "IndexError", "NameError", "AssertionError"}

Census(stat, x) == Cardinality({n \in Nodes : stat[n] = x})

Disjoint == Range(initial_infecteds) \cap initial_recovereds = {}

\* C1: at every recorded index the status counts sum to the node count
\* (S+I+R = G.order() for SIR, S+I = G.order() for SIS), in all five engines,
\* and the count lists are parallel to the time list.
C1_CountsSumToOrder ==
    /\ Len(S) = Len(times)
    /\ Len(I) = Len(times)
    /\ IsSIR => Len(R) = Len(times)
    /\ \A i \in 1..Len(times) :
          S[i] + I[i] + (IF IsSIR THEN R[i] ELSE 0) = order

\* a finished Gillespie SIR run that recorded infections and recoveries
C1_Witness ==
    /\ engine = "Gillespie_SIR"
    /\ pc = "done"
    /\ Len(times) >= 4
    /\ \E i \in 1..Len(R) : R[i] >= 2
    /\ \E i \in 2..Len(S) : S[i] < S[1]

InfectionRecord(node) ==
    /\ status[node] = "S" /\ status'[node] = "I"
    /\ Last(S') = Last(S) - 1
    /\ Last(I') = Last(I) + 1
    /\ IsSIR => Last(R') = Last(R)

RecoveryRecord(node) ==
    /\ status[node] = "I"
    /\ Last(I') = Last(I) - 1
    /\ IF IsSIR
       THEN status'[node] = "R" /\ Last(R') = Last(R) + 1 /\ Last(S') = Last(S)
       ELSE status'[node] = "S" /\ Last(S') = Last(S) + 1

\* C2: between consecutive records exactly one node changed status, and the counts
\* moved as that change requires (S->I: S-1, I+1; I->R: I-1, R+1; SIS I->S: I-1, S+1);
\* no status changes without a record.
C2_OneFlipPerRecord ==
    [][ /\ (Len(times') = Len(times) + 1) =>
            \E node \in Nodes :
                /\ \A m \in Nodes \ {node} : status'[m] = status[m]
                /\ InfectionRecord(node) \/ RecoveryRecord(node)
        /\ (status' # status) => Len(times') = Len(times) + 1
      ]_vars

\* C3: the time sequence is non-decreasing and no recorded time exceeds tmax
\* (every run of the model has tmin <= tmax and non-negative delays).
C3_TimesMonotoneBounded ==
    /\ \A i \in 1..(Len(times) - 1) : times[i] <= times[i + 1]
    /\ \A i \in 1..Len(times) : times[i] <= tmax

\* a run with a finite horizon that recorded events at two different times
\* and left an event beyond the horizon unapplied
C3_Witness ==
    /\ pc = "done"
    /\ tmax < Inf
    /\ Len(times) >= 3
    /\ times[1] < Last(times)
    /\ \E n \in Nodes : status[n] = "I"

\* C4: in the SIR engines a node's status only moves S -> I -> R; a Recovered node
\* (initially recovered ones included) never changes status again.
C4_SIRMonotone ==
    [][ IsSIR =>
          \A n \in Nodes :
             /\ status[n] = "R" => status'[n] = "R"
             /\ status[n] = "I" => status'[n] \in {"I", "R"}
             /\ status[n] = "S" => status'[n] \in {"S", "I"}
      ]_vars

\* an initially recovered node next to an infected one, later in the run
C4_Witness ==
    /\ IsSIR
    /\ Disjoint
    /\ Len(times) >= 3
    /\ \E n \in initial_recovereds : \E m \in neighbors(G, n) : status[m] = "R"

\* C5 (as claimed): the last record of an SIR series is the census of the status map
C5_CountsAreCensus ==
    (IsSIR /\ pc # "done") =>
        /\ Last(S) = Census(status, "S")
        /\ Last(I) = Census(status, "I")
        /\ Last(R) = Census(status, "R")

\* C6 (as claimed): the series an event-driven engine returns is non-empty and its
\* first record is (tmin, N-k, k) for k initial infecteds
C6_FirstRecord ==
    (IsEventDriven /\ pc = "done") =>
        /\ Len(times) >= 1
        /\ times[1] = tmin
        /\ S[1] = order - Len(initial_infecteds)
        /\ I[1] = Len(initial_infecteds)

\* the rate of all possible events in the current state
true_total_rate == gamma * Len(infected) + tau * total_weighted_size(risk_group)

\* C7 (as claimed): whenever the total rate is 0 before the first draw or at the top of
\* an iteration, the Gillespie run applies no further event and ends normally
C7_ZeroRateStops ==
    [][ (IsGillespie /\ pc \in {"start", "loop"} /\ true_total_rate = 0) =>
            (pc' \in {"loop", "done"} /\ UNCHANGED <<status, series>>)
      ]_vars

\* C8 (as claimed): at the top of every iteration total_rate is the rate of the current
\* state and I[-1] is len(infected)
C8_RateInvariant ==
    (IsGillespie /\ pc = "loop") =>
        /\ total_rate = true_total_rate
        /\ Last(I) = Len(infected)

InfectedNeighbors(v) == {u \in neighbors(G, v) : status[u] = "I"}

Bucket(n) == Range(rg_get(risk_group, n).items)

\* C9: with distinct initial infecteds disjoint from the initial recovereds, every
\* susceptible node with k >= 1 infected neighbours is in risk_group[k] and in no other
\* bucket, every bucketed node is susceptible with as many infected neighbours as its
\* key, and sum(n*len(risk_group[n])) counts the (infected, susceptible) adjacent pairs.
C9_RiskBuckets ==
    (IsGillespie /\ Disjoint) =>
        /\ \A v \in Nodes :
              (status[v] = "S" /\ InfectedNeighbors(v) # {}) =>
                  /\ v \in Bucket(Cardinality(InfectedNeighbors(v)))
                  /\ \A n \in DOMAIN risk_group :
                        n # Cardinality(InfectedNeighbors(v)) => v \notin Bucket(n)
        /\ \A n \in DOMAIN risk_group : \A v \in Bucket(n) :
              /\ status[v] = "S"
              /\ n >= 1
              /\ Cardinality(InfectedNeighbors(v)) = n
        /\ total_weighted_size(risk_group) =
              Cardinality({e \in Nodes \X Nodes :
                              /\ e[2] \in neighbors(G, e[1])
                              /\ status[e[1]] = "I" /\ status[e[2]] = "S"})

\* an SIS run in which a node fell back from two infected neighbours to one
C9_Witness ==
    /\ engine = "Gillespie_SIS"
    /\ pc = "loop"
    /\ Len(times) >= 3
    /\ 2 \in DOMAIN risk_group
    /\ Bucket(2) = {}
    /\ Bucket(1) # {}
    /\ \E n \in Nodes : recovery_times[n] # <<>>

\* the event pop_and_run will take next from a non-empty queue is a transmission
\* attempt on a node that is no longer susceptible
StaleAttemptNext ==
    /\ engine = "fast_nonMarkov_SIR"
    /\ pc = "drain"
    /\ myQueue_len(Q) > 0
    /\ heappop(Q).function = "_process_trans_SIR_"
    /\ status[heappop(Q).node] # "S"

\* C10: a transmission attempt popped for a node that is not Susceptible changes nothing
\* but the queue, which loses exactly that event: no record, no status or time map
\* change, no new event.
C10_StaleAttemptIsNoOp ==
    [][ StaleAttemptNext =>
            /\ UNCHANGED <<status, rec_time, pred_inf_time, times, S, I, R>>
            /\ Q'.heap = Q.heap \ {heappop(Q)}
            /\ Q'.counter = Q.counter
            /\ Q'.tmax = Q.tmax
      ]_vars

\* a stale attempt was popped in a run without overlapping initial sets: more events
\* have left the queue than records were appended
C10_Witness ==
    /\ engine = "fast_nonMarkov_SIR"
    /\ pc = "drain"
    /\ Disjoint
    /\ Q.counter - myQueue_len(Q) > Len(times) - 1

\* ------------------------------------------------ event-driven SIR scheduling
IsFastSIR == engine = "fast_nonMarkov_SIR"

TransEvents(q) == {e \in q.heap : e.function = "_process_trans_SIR_"}

\* the node a step infects, if any
Infects(u) == status[u] = "S" /\ status'[u] = "I"

\* C11: in the event-driven SIR engine every transmission event a step enqueues
\* was scheduled by the node u the step infects, has a time not later than u's
\* recovery time, strictly earlier than its target's pred_inf_time before the step,
\* and becomes its target's pred_inf_time; a step that infects nobody enqueues nothing.
C11_ScheduledWithinInfectiousPeriod ==
    [][ IsFastSIR =>
          \A e \in TransEvents(Q') \ TransEvents(Q) :
             /\ \E u \in Nodes : Infects(u) /\ e.time <= rec_time'[u] /\ e.node \in neighbors(G, u)
             /\ e.time < pred_inf_time[e.node]
             /\ pred_inf_time'[e.node] = e.time
      ]_vars

\* a transmission event scheduled for the very time its source recovers
C11_Witness ==
    /\ IsFastSIR
    /\ \E e \in TransEvents(Q) : \E u \in Nodes :
          /\ e.counter >= Len(initial_infecteds)
          /\ status[u] = "I" /\ e.node \in neighbors(G, u)
          /\ rec_time[u] = e.time
          /\ status[e.node] = "S"

\* C12: pred_inf_time starts at +infinity (tmin for a seed) and every write in the
\* event-driven SIR engine stores a strictly smaller value.
C12_PredInfTimeDecreases ==
    [][ IsFastSIR =>
          \A n \in Nodes :
             /\ pred_inf_time[n] <= (IF n \in Range(initial_infecteds) THEN tmin ELSE Inf)
             /\ pred_inf_time'[n] # pred_inf_time[n] => pred_inf_time'[n] < pred_inf_time[n]
      ]_vars

\* a node whose predicted infection time was lowered twice: two attempts are queued
\* for it and pred_inf_time is the time of the earlier, later-scheduled one
C12_Witness ==
    /\ IsFastSIR
    /\ \E e, f \in TransEvents(Q) :
          /\ e.node = f.node /\ f.counter > e.counter /\ f.time < e.time
          /\ pred_inf_time[e.node] = f.time
          /\ e.node \notin Range(initial_infecteds)

\* C13: whenever v is Susceptible and pred_inf_time[v] is finite, the queue holds a
\* transmission event for v at exactly pred_inf_time[v] and none for v earlier.
C13_PredIsEarliestScheduled ==
    IsFastSIR /\ pc = "drain" =>
       \A v \in Nodes :
          (status[v] = "S" /\ pred_inf_time[v] < Inf) =>
             /\ \E e \in TransEvents(Q) : e.node = v /\ e.time = pred_inf_time[v]
             /\ \A e \in TransEvents(Q) : e.node = v => e.time >= pred_inf_time[v]

\* ------------------------------------------------ event-driven SIS transmissions
IsSeedEvent(e) ==
    IF engine = "fast_SIS" THEN e.source = NoNode ELSE e.counter < Len(initial_infecteds)

\* u is in its current infectious period at time t
Infectious(u, t) == status[u] = "I" /\ t <= rec_time[u]

\* the source of a popped transmission event is still infectious; an event of
\* fast_nonMarkov_SIS does not carry its source, which is a neighbour of its target
SourceStillInfectious(e) ==
    IF engine = "fast_SIS"
    THEN Infectious(e.source, e.time)
    ELSE \E u \in neighbors(G, e.node) : Infectious(u, e.time)

\* C14: in fast_SIS and fast_nonMarkov_SIS a node becomes Infected only as the target
\* of the popped transmission event, only if it is Susceptible, and (seeding events
\* apart) only if the source of the event is still in its infectious period: status I
\* and event time not later than the source's recovery time.
C14_TransmissionFromInfectiousSource ==
    [][ (engine \in {"fast_SIS", "fast_nonMarkov_SIS"} /\ pc = "drain" /\ Q.heap # {}) =>
          \A n \in Nodes :
             (status'[n] = "I" /\ status[n] # "I") =>
                LET e == heappop(Q)
                IN /\ e.node = n
                   /\ e.function \in {"_process_trans_SIS_Markov", "_process_trans_SIS_nonMarkov_"}
                   /\ status[n] = "S"
                   /\ (IsSeedEvent(e) \/ SourceStillInfectious(e))
      ]_vars

\* ------------------------------------------------ myQueue call by call
\* the accepted add calls whose callback has not run before call j
Pending(j) ==
    {i \in 1..(j - 1) :
        /\ calls[i].op = "add" /\ calls[i].outcome = "queued"
        /\ \A k \in 1..(j - 1) : ~(calls[k].op = "callback" /\ calls[k].token = i)}

\* C15: add enqueues the event, under the next counter, whenever time <= tmax and
\* leaves the heap and the counter unchanged exactly when time > tmax.
C15_AddUpToHorizon ==
    engine = "myQueue" =>
       \A i \in DOMAIN calls :
          calls[i].op = "add" =>
             calls[i].outcome = (IF calls[i].time <= Q.tmax THEN "queued" ELSE "dropped")

\* C16: every callback run by pop_and_run is the pending event of least time, the
\* first added among those of equal time, gets the event's time and args, and runs
\* once; the heap is left with exactly the events still pending.
C16_PopMinTimeFIFO ==
    engine = "myQueue" =>
       /\ \A j \in DOMAIN calls :
             calls[j].op = "callback" =>
                LET k == calls[j].token
                IN /\ k \in Pending(j)
                   /\ calls[j].time = calls[k].time
                   /\ \A i \in Pending(j) :
                         \/ calls[k].time < calls[i].time
                         \/ (calls[k].time = calls[i].time /\ k <= i)
       /\ {e.node : e \in Q.heap} = Pending(Len(calls) + 1)
       /\ \A e \in Q.heap : calls[e.node].time = e.time /\ e.function = "callback"

\* a callback ran ahead of an event of the same time that was added later, by a
\* callback while it ran
C16_Witness ==
    /\ engine = "myQueue"
    /\ \E j \in DOMAIN calls :
          /\ calls[j].op = "callback"
          /\ \E i \in Pending(j) :
                /\ i > calls[j].token
                /\ calls[i].time = calls[j].time
                /\ calls[i - 1].op = "callback"
          /\ \E i \in Pending(j) : calls[i].time > calls[j].time /\ i < calls[j].token

\* C17: pop_and_run on an empty queue raises IndexError, runs no callback and leaves
\* the queue empty.
C17_PopEmptyRaises ==
    [][ (/\ engine = "myQueue"
         /\ Q.heap = {}
         /\ Len(calls') > Len(calls)
         /\ calls'[Len(calls) + 1].op # "add") =>
            /\ calls' = Append(calls, [op |-> "IndexError", time |-> 0, token |-> 0,
                                       outcome |-> "raised"])
            /\ Q' = Q
      ]_vars

\* the caller drained the queue and popped once more
C17_Witness ==
    /\ engine = "myQueue"
    /\ Len(calls) >= 3
    /\ Last(calls).op = "IndexError"
    /\ calls[Len(calls) - 1].op = "callback"
    /\ Q.heap = {}
    /\ Q.counter > 0

\* ------------------------------------------------ _ListDict_ call by call
\* the items present after the first j calls, from the calls alone
RECURSIVE PresentAfter(_)
PresentAfter(j) ==
    IF j = 0 THEN {}
    ELSE LET c == calls[j]
             P == PresentAfter(j - 1)
         IN IF c.op = "add" THEN P \cup {c.item}
            ELSE IF c.op = "remove" THEN P \ {c.item}
            ELSE P

\* the _ListDict_ the j-th call left behind
After(j) == IF j < Len(calls) THEN calls[j + 1].before ELSE LD

\* items holds each key once and item_to_position is its inverse (0-based)
WellFormed(ld) ==
    /\ DOMAIN ld.item_to_position = Range(ld.items)
    /\ Len(ld.items) = Cardinality(Range(ld.items))
    /\ \A i \in 1..Len(ld.items) : ld.item_to_position[ld.items[i]] = i - 1

\* C18: after any sequence of add and remove calls items holds exactly the present
\* items, each once, item_to_position[items[i]] == i with the present items as keys,
\* len() is the number of present items, remove raises exactly for an absent item and
\* choose_random returns a present item.
C18_ListDictConsistent ==
    engine = "_ListDict_" =>
       /\ \A j \in 0..Len(calls) :
             /\ Range(After(j).items) = PresentAfter(j)
             /\ WellFormed(After(j))
             /\ _ListDict_len(After(j)) = Cardinality(PresentAfter(j))
             /\ _ListDict_choose_random(After(j)) \subseteq PresentAfter(j)
       /\ \A j \in DOMAIN calls :
             /\ (calls[j].op = "choose_random" /\ calls[j].outcome = "returned") =>
                    calls[j].item \in PresentAfter(j)
             /\ calls[j].op = "remove" =>
                    (calls[j].outcome = "returned" <=> calls[j].item \in PresentAfter(j - 1))

\* an item other than the last was removed from a list of three, and one of the
\* remaining two was chosen
C18_Witness ==
    /\ engine = "_ListDict_"
    /\ \E j \in DOMAIN calls :
          /\ calls[j].op = "remove" /\ calls[j].outcome = "returned"
          /\ Len(calls[j].before.items) = 3
          /\ calls[j].before.items[1] = calls[j].item
    /\ Len(LD.items) = 2
    /\ LD.item_to_position[LD.items[1]] = 0

\* C19: add of a present item changes nothing, so add(x); add(x) leaves the state
\* add(x) left.
C19_AddIdempotent ==
    engine = "_ListDict_" =>
       \A j \in DOMAIN calls :
          calls[j].op = "add" =>
             /\ _ListDict_has(calls[j].before, calls[j].item) => After(j) = calls[j].before
             /\ (j > 1 /\ calls[j - 1].op = "add" /\ calls[j - 1].item = calls[j].item) =>
                    After(j) = After(j - 1)

\* x was added twice in a row to a list holding another item
C19_Witness ==
    /\ engine = "_ListDict_"
    /\ \E j \in 2..Len(calls) :
          /\ calls[j].op = "add" /\ calls[j - 1].op = "add"
          /\ calls[j].item = calls[j - 1].item
          /\ Len(calls[j - 1].before.items) >= 1
          /\ ~_ListDict_has(calls[j - 1].before, calls[j].item)

\* C20: remove(x) of a present x followed by add(x) gives the same membership and
\* size as before, and after the remove (and after the add) every item's recorded
\* position is its index, whether x was the last item, the only one, or neither.
C20_RemoveThenAdd ==
    engine = "_ListDict_" =>
       \A j \in DOMAIN calls :
          (/\ calls[j].op = "remove" /\ calls[j].outcome = "returned"
           /\ j < Len(calls)
           /\ calls[j + 1].op = "add" /\ calls[j + 1].item = calls[j].item) =>
              /\ Range(After(j + 1).items) = Range(calls[j].before.items)
              /\ _ListDict_len(After(j + 1)) = _ListDict_len(calls[j].before)
              /\ WellFormed(After(j))
              /\ WellFormed(After(j + 1))
              /\ ~_ListDict_has(After(j), calls[j].item)

\* x, not the last item, was removed (the last item moved into its place) and added back
C20_Witness ==
    /\ engine = "_ListDict_"
    /\ Len(calls) >= 2
    /\ LET r == calls[Len(calls) - 1]
           a == Last(calls)
       IN /\ r.op = "remove" /\ r.outcome = "returned"
          /\ a.op = "add" /\ a.item = r.item
          /\ Len(r.before.items) >= 2
          /\ r.before.items[1] = r.item
          /\ LD.items # r.before.items

\* C21: remove of an absent item raises KeyError and leaves items and
\* item_to_position as they were; choose_random on an empty _ListDict_ raises
\* IndexError instead of returning a value.
C21_AbsentAndEmptyRaise ==
    engine = "_ListDict_" =>
       \A j \in DOMAIN calls :
          /\ (calls[j].op = "remove" /\ calls[j].item \notin Range(calls[j].before.items)) =>
                (calls[j].outcome = "KeyError" /\ After(j) = calls[j].before)
          /\ (calls[j].op = "choose_random" /\ calls[j].before.items = <<>>) =>
                (calls[j].outcome = "IndexError" /\ After(j) = calls[j].before)

\* an absent item was removed from a non-empty list, the list was then emptied and
\* choose_random was called on it
C21_Witness ==
    /\ engine = "_ListDict_"
    /\ \E j \in DOMAIN calls :
          /\ calls[j].op = "remove" /\ calls[j].outcome = "KeyError"
          /\ calls[j].before.items # <<>>
    /\ Last(calls).op = "choose_random" /\ Last(calls).outcome = "IndexError"
    /\ Len(calls) = 4

\* ------------------------------------------------ the checks of the entry points
Called == engine \in Engines /\ pc \in {"EoNError", "setup"}

Given(a) == a.kind # "None"

\* C22: every entry point raises the configuration error, before any step, whenever
\* both initial_infecteds and rho are given (not None), whatever their values.
C22_InfectedsAndRhoRejected ==
    (Called /\ Given(args.rho) /\ Given(args.initial_infecteds)) => pc = "EoNError"

\* C23: fast_nonMarkov_SIR and Gillespie_SIR raise the configuration error whenever
\* both initial_recovereds and rho are given.
C23_RecoveredsAndRhoRejected ==
    (Called /\ TakesRecovereds(engine) /\ Given(args.rho) /\ Given(args.initial_recovereds)) =>
        pc = "EoNError"

\* the two accepted configurations: the joint function alone, or both split
\* functions without the joint one
AcceptedFunctions(a) ==
    \/ (a.trans_and_rec_time_fxn /\ ~a.trans_time_fxn /\ ~a.rec_time_fxn)
    \/ (~a.trans_and_rec_time_fxn /\ a.trans_time_fxn /\ a.rec_time_fxn)

\* C24: fast_nonMarkov_SIR and fast_nonMarkov_SIS raise the configuration error,
\* before the queue is used, for each of the six other combinations of the three
\* function arguments, and for the two accepted ones they go on to the set-up
\* (unless rho is in conflict with the initial sets).
C24_FunctionConfigurations ==
    (Called /\ TakesFunctions(engine)) =>
        /\ ~AcceptedFunctions(args) => (pc = "EoNError" /\ Q = myQueue_init(tmax))
        /\ (AcceptedFunctions(args) /\ ~Given(args.rho)) => pc = "setup"

\* the joint function was given together with both split functions, and nothing else
C24_Witness ==
    /\ Called /\ TakesFunctions(engine)
    /\ args.trans_and_rec_time_fxn /\ args.trans_time_fxn /\ args.rec_time_fxn
    /\ ~Given(args.rho)
    /\ args.initial_infecteds = List(<<1>>)
    /\ pc = "EoNError"

\* C25: fast_nonMarkov_SIR and Gillespie_SIR raise the configuration error at once
\* when the initial infecteds and the initial recovereds share a node.
C25_OverlapRejected ==
    (/\ Called /\ TakesRecovereds(engine)
     /\ Given(args.initial_infecteds)
     /\ \E l \in infecteds_lists(args) :
           Range(l) \cap Range(args.initial_recovereds.list) # {}) =>
        pc = "EoNError"

\* ------------------------------------------------------------ scenarios
\* scenario A: the path over all the nodes, its first node the seed, a run that starts
ScenarioA == IsFastSIR /\ G = PathGraph /\ initial_infecteds = <<1>> /\ tmin < tmax

ScenarioC ==
    /\ engine = "Gillespie_SIS" /\ G = PairGraph
    /\ initial_infecteds \in {<<1>>, <<2>>}
    /\ gamma = 0 /\ tau > 0

ScenarioB ==
    /\ G = EmptyGraph
    /\ Len(initial_infecteds) = 1
    /\ initial_recovereds = {}

TransmissionFunctions ==
    {"_process_trans_SIR_", "_process_trans_SIS_Markov", "_process_trans_SIS_nonMarkov_"}

\* C28: in scenario B, in every engine, the only transmission event ever queued
\* is the seeding of the initially infected node at tmin, every other node stays
\* Susceptible, the infected node only recovers (to R in SIR, to S in SIS) and is
\* not infected again, and the counts of every record sum to the number of nodes.
C28_ScenarioB_NoTransmission ==
    /\ [](ScenarioB =>
            /\ \A n \in Nodes \ Range(initial_infecteds) : status[n] = "S"
            /\ \A e \in Q.heap : e.function \in TransmissionFunctions =>
                   e.node \in Range(initial_infecteds) /\ e.time = tmin
            /\ \A i \in 1..Len(times) :
                   S[i] + I[i] + (IF IsSIR THEN R[i] ELSE 0) = order)
    /\ [][ScenarioB =>
            \A n \in Range(initial_infecteds) :
               /\ Infects(n) => Len(times) = 1 /\ heappop(Q).time = tmin
               /\ status[n] = "I" => status'[n] \in {"I", IF IsSIR THEN "R" ELSE "S"}
               /\ status[n] = "R" => status'[n] = "R"
         ]_vars

\* a finished SIS run on isolated nodes whose seed was infected and recovered
C28_Witness ==
    /\ ScenarioB
    /\ engine = "fast_SIS"
    /\ pc = "done"
    /\ \E i \in 1..Len(I) : I[i] = 1
    /\ Last(I) = 0
    /\ \A n \in Nodes : status[n] = "S"

\* the status of a node at tmin, as the arguments of the run give it
StatusAtTmin(node) ==
    IF node \in initial_recovereds THEN "R"
    ELSE IF node \in Range(initial_infecteds) THEN "I" ELSE "S"

\* every time of the history is a number and the times increase strictly
StrictlyIncreasingTimes(h) ==
    /\ \A i \in 1..Len(h.times) : h.times[i].kind = "number"
    /\ \A i \in 1..(Len(h.times) - 1) : h.times[i].num < h.times[i + 1].num

\* the history opens with the node's status at tmin
StartsAtTmin(h, node) ==
    /\ Len(h.times) >= 1 /\ Len(h.statuses) >= 1
    /\ h.times[1] = Number(tmin)
    /\ h.statuses[1] = StatusAtTmin(node)

\* the statuses follow the SIR order, one change per entry
ChangesInOrder(h) ==
    \A i \in 1..(Len(h.statuses) - 1) :
        <<h.statuses[i], h.statuses[i + 1]>> \in {<<"S", "I">>, <<"I", "R">>}

\* C29 (as claimed): every node_history entry fast_nonMarkov_SIR returns has
\* strictly increasing times, opens with the node's status at tmin (I for an
\* initial infected, R for an initial recovered, S otherwise) and goes on with
\* the node's status changes in order; stated for disjoint initial sets.
C29_NodeHistoryFastSIR ==
    (engine = "fast_nonMarkov_SIR" /\ pc = "done" /\ Disjoint) =>
        \A node \in DOMAIN node_history :
            /\ StrictlyIncreasingTimes(node_history[node])
            /\ StartsAtTmin(node_history[node], node)
            /\ ChangesInOrder(node_history[node])

\* C30 (as claimed): every node_history entry Gillespie_SIR returns is a pair of
\* lists of equal length, every time a single number, the times strictly
\* increasing, the first entry the node's status at tmin and the later entries
\* the node's infection and recovery; stated for disjoint initial sets.
C30_NodeHistoryGillespieSIR ==
    (engine = "Gillespie_SIR" /\ pc = "done" /\ Disjoint) =>
        \A node \in DOMAIN node_history :
            /\ Len(node_history[node].times) = Len(node_history[node].statuses)
            /\ StrictlyIncreasingTimes(node_history[node])
            /\ StartsAtTmin(node_history[node], node)
            /\ ChangesInOrder(node_history[node])

\* consecutive entries never repeat a status: the history alternates I and S
Alternates(h) ==
    \A i \in 1..(Len(h.statuses) - 1) :
        <<h.statuses[i], h.statuses[i + 1]>> \in {<<"S", "I">>, <<"I", "S">>}

\* the times of the entries of h at the positions in P, in order
RECURSIVE TimesAt(_, _)
TimesAt(h, P) ==
    IF P = {} THEN <<>>
    ELSE <<h.times[Min(P)].num>> \o TimesAt(h, P \ {Min(P)})

\* the I entries of h are the node's infections and the S entries after an
\* opening S are its recoveries
RecordsEveryEvent(h, node) ==
    /\ TimesAt(h, {i \in 1..Len(h.times) : h.statuses[i] = "I"}) = infection_times[node]
    /\ TimesAt(h, {i \in 2..Len(h.times) : h.statuses[i] = "S"}) = recovery_times[node]

\* C31 (as claimed): every node_history entry an SIS engine returns opens with
\* the node's status at tmin, has strictly increasing times, alternates between
\* I and S, records every infection and recovery of the node and ends with the
\* node's status at the end of the run; stated for fast_nonMarkov_SIS, the SIS
\* engine whose delays are the caller's.
C31_NodeHistorySIS ==
    (engine = "fast_nonMarkov_SIS" /\ pc = "done") =>
        \A node \in DOMAIN node_history :
            /\ StartsAtTmin(node_history[node], node)
            /\ StrictlyIncreasingTimes(node_history[node])
            /\ Alternates(node_history[node])
            /\ RecordsEveryEvent(node_history[node], node)
            /\ Last(node_history[node].statuses) = status[node]

\* sum(n*len(risk_group[n])) of the risk group a call finds
W == total_weighted_size(risk_group)

\* C32: in a call of the bucket choice with W > 0, whatever the order of the
\* keys, the scan stops at a non-empty bucket and the recipient is a member of
\* it; and for every order of the keys the draws r in [0, W) that select bucket
\* n are exactly n*len(risk_group[n]) of the W unit intervals.
C32_WeightedBucketSelection ==
    (engine = "_Gillespie_infect_" /\ W > 0) =>
        /\ \A i \in 1..Len(calls) :
               /\ calls[i].outcome = "returned"
               /\ _ListDict_len(risk_group[calls[i].n]) > 0
               /\ calls[i].recipient \in Range(risk_group[calls[i].n].items)
        /\ \A visit \in KeyOrders(risk_group) : \A n \in DOMAIN risk_group :
               Cardinality({r \in UniformBelow(W) : scan_bucket(visit, risk_group, r) = n})
                   = n * _ListDict_len(risk_group[n])

\* a call that visited an empty bucket and a lighter bucket before it stopped
\* at the level-2 bucket
C32_Witness ==
    /\ engine = "_Gillespie_infect_"
    /\ pc = "chosen"
    /\ \E n \in DOMAIN risk_group : _ListDict_len(risk_group[n]) = 0
    /\ Len(calls) = 1
    /\ calls[1].n = 2 /\ calls[1].keys[1] = 1
    /\ _ListDict_len(risk_group[1]) > 0
    /\ _ListDict_len(risk_group[2]) > 0

\* the non-infected neighbours of the infected nodes
Exposed == {v \in Nodes \ infecteds : \E u \in infecteds : v \in neighbors(G, u)}

\* C33 (as claimed): in a step of basic_discrete_SIS with p = 1 the nodes
\* infected after the step are exactly the non-infected neighbours of the nodes
\* infected before it, and the I count appended is their number.
C33_DiscreteSISStep ==
    [][ (engine = "basic_discrete_SIS" /\ p = 1 /\ times' # times) =>
           /\ infecteds' = Exposed
           /\ Last(I') = Cardinality(Exposed) ]_vars

\* the events a step adds to the queue
Enqueued == Q'.heap \ Q.heap

\* the nodes that are or have been infected
EverInfected == {u \in Nodes : status[u] # "S" /\ u \notin initial_recovereds}

\* C34: the drain loop of fast_nonMarkov_SIR ends, for every delay function
\* (zero and infinite delays included) and every tmax (infinity included): a
\* node is infected at most once, its infection enqueues at most one recovery
\* event for it and at most one transmission per neighbour, a step that infects
\* nobody enqueues nothing, the number of events ever enqueued is bounded by the
\* seeds plus one recovery and one attempt per neighbour for every infected
\* node, and the queue eventually is empty and the run returns.
C34_DrainLoopTerminates ==
    /\ [][ \A u \in Nodes :
              /\ status[u] # "S" => status'[u] # "S" /\ ~Infects(u)
              /\ Infects(u) =>
                    /\ \A v \in Nodes \ {u} : ~Infects(v)
                    /\ Cardinality({e \in Enqueued : e.function = "_process_rec_SIR_"}) <= 1
                    /\ \A e \in Enqueued :
                          IF e.function = "_process_rec_SIR_" THEN e.node = u
                          ELSE /\ e.node \in neighbors(G, u)
                               /\ \A f \in Enqueued : f.node = e.node => f = e
              /\ (\A v \in Nodes : ~Infects(v)) => Enqueued = {}
       ]_vars
    /\ [](Q.counter <= Len(initial_infecteds)
                          + Cardinality(EverInfected)
                          + Cardinality({e \in Nodes \X Nodes :
                                            e[1] \in EverInfected /\ e[2] \in neighbors(G, e[1])}))
    /\ <>(pc = "done" /\ myQueue_len(Q) = 0)

\* a run with zero delays and no horizon that infected every node of a
\* connected graph and came to its end
C34_Witness ==
    /\ engine = "fast_nonMarkov_SIR"
    /\ pc = "done"
    /\ tmax = Inf
    /\ G = CompleteGraph
    /\ Len(initial_infecteds) = 1
    /\ \A u \in Nodes : status[u] = "R"
    /\ Last(times) = tmin

\* the seeding events still in the queue: the first len(initial_infecteds) added
SeedEvents == {e \in Q.heap : e.counter < Len(initial_infecteds)}

\* C35 (as claimed): in the event-driven engines every seeding event is popped
\* before any event scheduled later, zero delays included, and the first
\* len(initial_infecteds) records appended are exactly the seed infections at
\* tmin, in the order of initial_infecteds.
C35_SeedsPoppedFirst ==
    /\ [][ (IsEventDriven /\ pc = "drain" /\ Q.heap # {}) =>
              IF heappop(Q).counter < Len(initial_infecteds)
              THEN /\ heappop(Q).node = initial_infecteds[heappop(Q).counter + 1]
                   /\ heappop(Q).time = tmin
                   /\ Infects(heappop(Q).node)
                   /\ Len(times') = heappop(Q).counter + 2
                   /\ Last(times') = tmin
              ELSE SeedEvents = {}
       ]_vars
    /\ []((IsEventDriven /\ pc = "drain" /\ SeedEvents = {}) =>
              Len(times) >= Len(initial_infecteds) + 1)

\* C36 (as claimed): in the Gillespie engines the list `infected` holds, at the
\* top of every iteration, exactly the nodes whose status is I, each once; a
\* recovery removes exactly one node, the one that stops being I, and an
\* infection appends exactly the recipient.
C36_InfectedListExact ==
    /\ []((IsGillespie /\ pc \in {"start", "loop"}) =>
              /\ Range(infected) = {n \in Nodes : status[n] = "I"}
              /\ Len(infected) = Cardinality(Range(infected)))
    /\ [][ (IsGillespie /\ pc' \notin {"done"} /\ ~Raised') =>
              /\ Len(infected') < Len(infected) =>
                    \E node \in Range(infected) :
                       /\ Range(infected') = Range(infected) \ {node}
                       /\ Len(infected') = Len(infected) - 1
                       /\ status[node] = "I" /\ status'[node] # "I"
                       /\ \A m \in Nodes \ {node} : status'[m] = status[m]
              /\ Len(infected') > Len(infected) =>
                    \E recipient \in Nodes :
                       /\ infected' = Append(infected, recipient)
                       /\ Infects(recipient)
                       /\ \A m \in Nodes \ {recipient} : status'[m] = status[m]
       ]_vars

\* a step of the Gillespie loop that called _Gillespie_infect_: it appended the
\* recipient or raised one of the errors of the bucket choice
CalledInfect ==
    /\ IsGillespie /\ pc = "loop"
    /\ \/ Len(infected') > Len(infected)
       \/ pc' \in {"NameError", "IndexError", "AssertionError"}

\* C37 (as claimed): whenever the loop of a Gillespie engine with gamma > 0
\* calls _Gillespie_infect_, some bucket is non-empty, choose_random is not
\* called on an empty bucket, the assertion holds, and the recipient is a
\* Susceptible node with at least one infected neighbour.
C37_InfectChoosesAtRiskNode ==
    [][ (CalledInfect /\ gamma > 0) =>
           /\ \E n \in DOMAIN risk_group : _ListDict_len(risk_group[n]) > 0
           /\ pc' \notin {"NameError", "IndexError", "AssertionError"}
           /\ \E recipient \in Nodes :
                 /\ infected' = Append(infected, recipient)
                 /\ status[recipient] = "S"
                 /\ \E u \in neighbors(G, recipient) : status[u] = "I"
      ]_vars

\* the node a step moves from I to R, if any
Recovers(v) == status[v] = "I" /\ status'[v] = "R"

IsFastSIS == engine = "fast_SIS"

\* the queued transmission attempts of the ordered pair (u, v)
PendingAttempts(u, v) ==
    {e \in Q.heap : /\ e.function = "_process_trans_SIS_Markov"
                    /\ e.source = u
                    /\ e.node = v}

\* C39: in fast_SIS the queue holds at most one pending transmission event per
\* ordered (source, target) pair of nodes; every pending attempt lies before its
\* source's recovery time, within the source's current infectious period; and a
\* step adds an attempt of a pair only when it infects the source or pops the
\* pair's previous attempt.
C39_OnePendingAttemptPerPair ==
    /\ [](IsFastSIS =>
            \A u \in Nodes : \A v \in Nodes :
               /\ Cardinality(PendingAttempts(u, v)) <= 1
               /\ \A e \in PendingAttempts(u, v) :
                     /\ e.time < rec_time[u]
                     /\ status[u] = "I"
                     /\ infection_times[u] # <<>>
                     /\ e.time >= Last(infection_times[u]))
    /\ [][ IsFastSIS =>
             \A u \in Nodes : \A v \in Nodes :
                PendingAttempts(u, v)' \ PendingAttempts(u, v) # {}
                   => \/ Infects(u)
                      \/ heappop(Q) \in PendingAttempts(u, v)
         ]_vars

\* a node that was infected, recovered and infected again has an attempt pending
\* on a neighbour
C39_Witness ==
    /\ IsFastSIS
    /\ \E u \in Nodes : \E v \in Nodes :
          /\ Len(infection_times[u]) >= 2
          /\ PendingAttempts(u, v) # {}
====
